---- MODULE Spec2Model ----
(***************************************************************************)
(* Selection-state directory tree of gthr (src/directory/tree.rs,          *)
(* src/directory/state.rs): the node arena, the tri-state selection        *)
(* engine, the text classifier used at insertion and the included-file     *)
(* query.  Arena indices are 0-based as in the source; node i of the       *)
(* arena is element i+1 of the sequence `nodes`.  Paths and names are      *)
(* sequences of one-character strings, file contents sequences of bytes.   *)
(***************************************************************************)
EXTENDS Integers, Sequences, FiniteSets, TLC

\* ------------------------------------------------------------------ bounds
\* Largest number of nodes the arena is grown to.
MaxNodes == 4

\* ------------------------------------------------------- Option<T> values
\* An Option is a sequence of length 0 (None) or 1 (Some(x)).
None == <<>>
Some(x) == <<x>>
IsSome(o) == o # <<>>
Unwrap(o) == o[1]

\* ------------------------------------------- SelectionState (state.rs:1-34)
Included == "Included"
Excluded == "Excluded"
Partial  == "Partial"

SelectionState == {Included, Excluded, Partial}

\* impl Default for SelectionState
default_state == Excluded

\* SelectionState::is_included
is_included(s) == s \in {Included, Partial}

\* SelectionState::is_excluded
is_excluded(s) == s = Excluded

\* SelectionState::is_partial
is_partial(s) == s = Partial

\* Faulty variant: a Partial node toggles off instead of on.
toggle_PartialOff(s) ==
  CASE s = Included -> Excluded
    [] s = Excluded -> Included
    [] s = Partial  -> Excluded

\* SelectionState::toggle
toggle(s) ==
  CASE s = Included -> Excluded
    [] s = Excluded -> Included
    [] s = Partial  -> Included

\* --------------------------------------------------------- path primitives
Min(a, b) == IF a < b THEN a ELSE b

\* Position of the last occurrence of character c in s, 0 when there is none.
LastIndexOf(s, c) ==
  LET hits == {i \in 1..Len(s) : s[i] = c}
  IN  IF hits = {} THEN 0 ELSE CHOOSE i \in hits : \A j \in hits : j <= i

\* str::to_lowercase on the ASCII letters.
LowerChar(c) ==
  CASE c = "A" -> "a" [] c = "B" -> "b" [] c = "C" -> "c" [] c = "D" -> "d"
    [] c = "E" -> "e" [] c = "F" -> "f" [] c = "G" -> "g" [] c = "H" -> "h"
    [] c = "I" -> "i" [] c = "J" -> "j" [] c = "K" -> "k" [] c = "L" -> "l"
    [] c = "M" -> "m" [] c = "N" -> "n" [] c = "O" -> "o" [] c = "P" -> "p"
    [] c = "Q" -> "q" [] c = "R" -> "r" [] c = "S" -> "s" [] c = "T" -> "t"
    [] c = "U" -> "u" [] c = "V" -> "v" [] c = "W" -> "w" [] c = "X" -> "x"
    [] c = "Y" -> "y" [] c = "Z" -> "z" [] OTHER -> c

to_lowercase(s) == [i \in 1..Len(s) |-> LowerChar(s[i])]

\* The path without its trailing separators and trailing "." components
\* (std::path::Path::components drops both).
RECURSIVE TrimPath(_)
TrimPath(p) ==
  IF Len(p) > 1 /\ p[Len(p)] = "/" THEN TrimPath(SubSeq(p, 1, Len(p) - 1))
  ELSE IF Len(p) > 2 /\ p[Len(p)] = "." /\ p[Len(p) - 1] = "/"
       THEN TrimPath(SubSeq(p, 1, Len(p) - 2))
  ELSE p

\* Path::file_name: the final component, None for the root and for a path
\* that ends in "..".
file_name(path) ==
  LET p    == TrimPath(path)
      k    == LastIndexOf(p, "/")
      last == SubSeq(p, k + 1, Len(p))
  IN  IF last = <<>> \/ last = <<".", ".">> \/ (k = 0 /\ last = <<".">>)
      THEN None ELSE Some(last)

\* Path::parent: the path without its final component, None for the root.
path_parent(path) ==
  LET p == TrimPath(path)
      k == LastIndexOf(p, "/")
  IN  IF p = <<"/">> \/ p = <<>> THEN None
      ELSE IF k = 0 THEN Some(<<>>)
      ELSE IF k = 1 THEN Some(<<"/">>)
      ELSE Some(TrimPath(SubSeq(p, 1, k - 1)))

\* path.parent().unwrap_or(root_path), the parent the traverser passes.
parent_or_root(path, root_path) ==
  IF IsSome(path_parent(path)) THEN Unwrap(path_parent(path)) ELSE root_path

\* Path::extension: the part of the file name after its last ".", None when
\* there is no "." or the only "." is the first character.
extension(path) ==
  LET f == file_name(path)
  IN  IF f = None THEN None
      ELSE LET n == Unwrap(f)
               k == LastIndexOf(n, ".")
           IN  IF k <= 1 THEN None ELSE Some(SubSeq(n, k + 1, Len(n)))

TextExtensions ==
  {
    <<"r","s">>, <<"p","y">>, <<"j","s">>, <<"t","s">>, <<"j","s","x">>, <<"t","s","x">>,
    <<"j","a","v","a">>, <<"c">>, <<"c","p","p">>, <<"c","c">>, <<"c","x","x">>, <<"h">>,
    <<"h","p","p">>, <<"h","x","x">>, <<"g","o">>, <<"r","b">>, <<"p","h","p">>,
    <<"s","w","i","f","t">>, <<"k","t">>, <<"k","t","s">>, <<"s","c","a","l","a">>,
    <<"d","a","r","t">>, <<"l","u","a">>, <<"p","e","r","l">>, <<"r">>, <<"j","l">>,
    <<"h","s">>, <<"e","l","m">>, <<"c","l","j">>, <<"c","l","j","s">>, <<"e","x">>,
    <<"e","x","s">>, <<"e","r","l">>, <<"h","r","l">>, <<"m","l">>, <<"m","l","i">>,
    <<"f","s">>, <<"f","s","i">>, <<"f","s","x">>, <<"f","s","s","c","r","i","p","t">>,
    <<"p","a","s">>, <<"p","p">>, <<"i","n","c">>, <<"a","s","m">>, <<"s">>,
    <<"h","t","m","l">>, <<"h","t","m">>, <<"c","s","s">>, <<"s","c","s","s">>,
    <<"s","a","s","s">>, <<"l","e","s","s">>, <<"v","u","e">>, <<"s","v","e","l","t","e">>,
    <<"j","s","o","n">>, <<"y","a","m","l">>, <<"y","m","l">>, <<"t","o","m","l">>,
    <<"x","m","l">>, <<"c","s","v">>, <<"t","s","v">>, <<"i","n","i">>, <<"c","o","n","f">>,
    <<"c","o","n","f","i","g">>, <<"p","r","o","p","e","r","t","i","e","s">>, <<"e","n","v">>,
    <<"m","d">>, <<"t","x","t">>, <<"r","s","t">>, <<"a","d","o","c">>, <<"t","e","x">>,
    <<"o","r","g">>, <<"s","h">>, <<"b","a","s","h">>, <<"z","s","h">>, <<"f","i","s","h">>,
    <<"p","s","1">>, <<"b","a","t">>, <<"c","m","d">>, <<"g","i","t","i","g","n","o","r","e">>,
    <<"g","i","t","a","t","t","r","i","b","u","t","e","s">>,
    <<"d","o","c","k","e","r","i","g","n","o","r","e">>,
    <<"e","d","i","t","o","r","c","o","n","f","i","g">>, <<"e","s","l","i","n","t","r","c">>,
    <<"p","r","e","t","t","i","e","r","r","c">>, <<"b","a","b","e","l","r","c">>,
    <<"n","p","m","r","c">>, <<"y","a","r","n","r","c">>,
    <<"d","o","c","k","e","r","f","i","l","e">>, <<"m","a","k","e","f","i","l","e">>,
    <<"c","m","a","k","e">>, <<"g","r","a","d","l","e">>, <<"m","a","v","e","n">>,
    <<"a","n","t">>, <<"w","e","b","p","a","c","k">>, <<"r","o","l","l","u","p">>,
    <<"v","i","t","e">>, <<"g","u","l","p","f","i","l","e">>,
    <<"g","r","u","n","t","f","i","l","e">>, <<"p","a","c","k","a","g","e">>,
    <<"l","o","c","k">>, <<"s","u","m">>, <<"m","o","d">>, <<"c","a","r","g","o">>,
    <<"g","e","m","f","i","l","e">>, <<"p","o","d","f","i","l","e">>,
    <<"r","e","q","u","i","r","e","m","e","n","t","s">>, <<"p","i","p","f","i","l","e">>,
    <<"p","y","p","r","o","j","e","c","t">>, <<"l","o","g">>, <<"t","y","p">>,
    <<"t","y","p","s","t">>, <<"n","i","x">>, <<"v","i","m">>, <<"v","i","m","r","c">>,
    <<"e","m","a","c","s">>, <<"e","l">>, <<"l","i","s","p">>, <<"s","c","m">>,
    <<"r","k","t">>, <<"s","q","l">>, <<"p","r","o","t","o">>, <<"g","r","a","p","h","q","l">>,
    <<"g","q","l">>
  }

TextFileNames ==
  {
    <<"r","e","a","d","m","e">>, <<"l","i","c","e","n","s","e">>,
    <<"c","h","a","n","g","e","l","o","g">>, <<"a","u","t","h","o","r","s">>,
    <<"c","o","n","t","r","i","b","u","t","o","r","s">>, <<"m","a","k","e","f","i","l","e">>,
    <<"d","o","c","k","e","r","f","i","l","e">>,
    <<"v","a","g","r","a","n","t","f","i","l","e">>, <<"g","e","m","f","i","l","e">>,
    <<"r","a","k","e","f","i","l","e">>, <<"p","r","o","c","f","i","l","e">>,
    <<"c","m","a","k","e","l","i","s","t","s">>, <<"b","u","i","l","d">>,
    <<"c","o","n","f","i","g","u","r","e">>, <<"i","n","s","t","a","l","l">>,
    <<"n","e","w","s">>, <<"t","o","d","o">>, <<"c","o","p","y","i","n","g">>,
    <<"m","a","n","i","f","e","s","t">>, <<"j","u","s","t","f","i","l","e">>
  }

\* ---------------------------------------- text classifier (tree.rs:203-352)
\* is_text_by_extension: the lower-cased extension is on the allow-list, or,
\* for a name without extension, the lower-cased name is a well-known one.
is_text_by_extension(path) ==
  IF IsSome(extension(path))
  THEN to_lowercase(Unwrap(extension(path))) \in TextExtensions
  ELSE IF IsSome(file_name(path))
       THEN to_lowercase(Unwrap(file_name(path))) \in TextFileNames
       ELSE FALSE

\* const SAMPLE_SIZE inside is_text_by_content
SAMPLE_SIZE == 8192

\* get_utf8_char_length: the masks 0x80, 0xE0, 0xF0, 0xF8 on the first byte.
get_utf8_char_length(first_byte) ==
  IF (first_byte \div 128) * 128 = 0 THEN Some(1)
  ELSE IF (first_byte \div 32) * 32 = 192 THEN Some(2)
  ELSE IF (first_byte \div 16) * 16 = 224 THEN Some(3)
  ELSE IF (first_byte \div 8) * 8 = 240 THEN Some(4)
  ELSE None

\* std::str::from_utf8(slice).is_ok() for a slice that holds one candidate
\* character: the well-formed byte sequences of the Unicode standard.
Cont(b) == b >= 128 /\ b <= 191
from_utf8_is_ok(s) ==
  CASE Len(s) = 1 -> s[1] < 128
    [] Len(s) = 2 -> s[1] >= 194 /\ s[1] <= 223 /\ Cont(s[2])
    [] Len(s) = 3 ->
         /\ Cont(s[3])
         /\ \/ s[1] = 224 /\ s[2] >= 160 /\ s[2] <= 191
            \/ s[1] >= 225 /\ s[1] <= 236 /\ Cont(s[2])
            \/ s[1] = 237 /\ s[2] >= 128 /\ s[2] <= 159
            \/ s[1] >= 238 /\ s[1] <= 239 /\ Cont(s[2])
    [] Len(s) = 4 ->
         /\ Cont(s[3]) /\ Cont(s[4])
         /\ \/ s[1] = 240 /\ s[2] >= 144 /\ s[2] <= 191
            \/ s[1] >= 241 /\ s[1] <= 243 /\ Cont(s[2])
            \/ s[1] = 244 /\ s[2] >= 128 /\ s[2] <= 143
    [] OTHER -> FALSE

\* The while loop of is_likely_text: the number of bytes counted as text
\* from 0-based position i on, given the count so far.
RECURSIVE printable_loop(_, _, _)
printable_loop(buffer, i, printable_count) ==
  IF i >= Len(buffer) THEN printable_count
  ELSE LET byte == buffer[i + 1]
       IN  IF (byte >= 32 /\ byte <= 126) \/ byte = 10 \/ byte = 13 \/ byte = 9
           THEN printable_loop(buffer, i + 1, printable_count + 1)
           ELSE IF byte >= 128
           THEN LET l == get_utf8_char_length(byte)
                IN  IF IsSome(l)
                    THEN IF i + Unwrap(l) <= Len(buffer)
                         THEN IF from_utf8_is_ok(SubSeq(buffer, i + 1, i + Unwrap(l)))
                              THEN printable_loop(buffer, i + Unwrap(l),
                                                  printable_count + Unwrap(l))
                              ELSE printable_loop(buffer, i + 1, printable_count)
                         ELSE printable_loop(buffer, i + 1, printable_count)
                    ELSE printable_loop(buffer, i + 1, printable_count)
           ELSE printable_loop(buffer, i + 1, printable_count)

\* Faulty variant: the ratio has to exceed 0.95.
is_likely_text_Strict(buffer) ==
  IF \E i \in 1..Len(buffer) : buffer[i] = 0 THEN FALSE
  ELSE IF Len(buffer) = 0 THEN FALSE
  ELSE 20 * printable_loop(buffer, 0, 0) > 19 * Len(buffer)

\* is_likely_text: no NUL byte and text_ratio >= 0.95.  On the empty buffer
\* the f64 quotient 0 / 0 is NaN and NaN >= 0.95 is false.  On a buffer of
\* 1..SAMPLE_SIZE bytes the f64 comparison printable_count / len >= 0.95 is
\* the integer comparison 20 * count >= 19 * len.
is_likely_text(buffer) ==
  IF \E i \in 1..Len(buffer) : buffer[i] = 0 THEN FALSE
  ELSE IF Len(buffer) = 0 THEN FALSE
  ELSE 20 * printable_loop(buffer, 0, 0) >= 19 * Len(buffer)

\* infer::get(&buffer): the magic numbers of the infer crate that the files
\* of this model can carry (PNG, gzip, PDF, ZIP).
infer_get(buffer) ==
  IF \/ Len(buffer) > 3 /\ SubSeq(buffer, 1, 4) = <<137, 80, 78, 71>>
     \/ Len(buffer) > 2 /\ SubSeq(buffer, 1, 3) = <<31, 139, 8>>
     \/ Len(buffer) > 3 /\ SubSeq(buffer, 1, 4) = <<37, 80, 68, 70>>
     \/ Len(buffer) > 3 /\ SubSeq(buffer, 1, 4) = <<80, 75, 3, 4>>
  THEN Some("binary") ELSE None

\* ------------------------------------------------------------- file system
\* The paths the arena is populated from and what the disk holds at each.
RootPath == <<"/">>
PathA    == <<"/", "a", ".", "t", "x", "t">>
PathB    == <<"/", "s", "u", "b", "/", "b", ".", "b", "i", "n">>
PathSub  == <<"/", "s", "u", "b">>
PathC    == <<"/", "s", "u", "b", "/", "c", ".", "t", "x", "t">>

Paths == {RootPath, PathA, PathB, PathSub, PathC}

\* Further files on the disk that the classifier is run on: empty files
\* with an unknown extension, without extension, and with a well-known
\* name, and non-empty files with an unknown extension.
PathEmptyDat == <<"/", "e", ".", "d", "a", "t">>
PathEmptyRaw == <<"/", "n", "o", "t", "e", "s">>
PathReadme   == <<"/", "R", "E", "A", "D", "M", "E">>
PathTextDat  == <<"/", "t", ".", "d", "a", "t">>
PathPngDat   == <<"/", "p", ".", "d", "a", "t">>
PathGone     == <<"/", "g", "o", "n", "e">>

ClassifiedPaths ==
  (Paths \ {RootPath, PathSub})
    \cup {PathEmptyDat, PathEmptyRaw, PathReadme, PathTextDat, PathPngDat, PathGone}

\* kind "file" carries its bytes; opening a "dir" succeeds and reading it
\* fails; a "missing" path cannot be opened.
Disk(path) ==
  CASE path = PathA -> [kind |-> "file", bytes |-> <<104, 105, 10>>]
    [] path = PathB -> [kind |-> "file", bytes |-> <<98, 0, 255, 1>>]
    [] path = PathC -> [kind |-> "file", bytes |-> <<>>]
    [] path = PathEmptyDat -> [kind |-> "file", bytes |-> <<>>]
    [] path = PathEmptyRaw -> [kind |-> "file", bytes |-> <<>>]
    [] path = PathReadme -> [kind |-> "file", bytes |-> <<>>]
    [] path = PathTextDat -> [kind |-> "file", bytes |-> <<104, 105, 10>>]
    [] path = PathPngDat -> [kind |-> "file", bytes |-> <<137, 80, 78, 71, 13, 10>>]
    [] path = PathSub -> [kind |-> "dir", bytes |-> <<>>]
    [] path = RootPath -> [kind |-> "dir", bytes |-> <<>>]
    [] OTHER -> [kind |-> "missing", bytes |-> <<>>]

\* Faulty variant: an empty read is taken for text.
is_text_by_content_EmptyIsText(path) ==
  LET f == Disk(path)
  IN  IF f.kind = "missing" THEN FALSE
      ELSE IF f.kind = "dir" THEN FALSE
      ELSE LET bytes_read == Min(Len(f.bytes), SAMPLE_SIZE)
               buffer     == SubSeq(f.bytes, 1, bytes_read)
           IN  IF bytes_read = 0 THEN TRUE
               ELSE IF IsSome(infer_get(buffer)) THEN FALSE
               ELSE is_likely_text(buffer)

\* is_text_by_content: sample the first SAMPLE_SIZE bytes.
is_text_by_content(path) ==
  LET f == Disk(path)
  IN  IF f.kind = "missing" THEN FALSE
      ELSE IF f.kind = "dir" THEN FALSE
      ELSE LET bytes_read == Min(Len(f.bytes), SAMPLE_SIZE)
               buffer     == SubSeq(f.bytes, 1, bytes_read)
           IN  IF bytes_read = 0 THEN FALSE
               ELSE IF IsSome(infer_get(buffer)) THEN FALSE
               ELSE is_likely_text(buffer)

\* is_text_file
is_text_file(path) ==
  IF is_text_by_extension(path) THEN TRUE ELSE is_text_by_content(path)

\* ------------------------------------------------- FileNode (tree.rs:7-42)
\* FileNode::new: the name is the final path component, or the path itself
\* when there is none.
FileNode_new(path, is_directory, parent) ==
  [ path         |-> path,
    name         |-> IF IsSome(file_name(path)) THEN Unwrap(file_name(path)) ELSE path,
    is_directory |-> is_directory,
    size         |-> None,
    children     |-> <<>>,
    parent       |-> parent,
    state        |-> default_state,
    is_text_file |-> FALSE ]

\* FileNode::add_child
add_child(node, child_index) ==
  [node EXCEPT !.children = Append(node.children, child_index)]

\* ------------------------------------------- DirectoryTree (tree.rs:44-201)
\* DirectoryTree.root_index, set once by DirectoryTree::new
root_index == 0

\* self.nodes.get(index)
get_node(ns, index) ==
  IF index >= 0 /\ index < Len(ns) THEN Some(ns[index + 1]) ELSE None

\* DirectoryTree::new
DirectoryTree_new(root_path) ==
  [ nodes         |-> <<FileNode_new(root_path, TRUE, None)>>,
    path_to_index |-> [p \in {root_path} |-> 0] ]

\* Faulty variant: the index is appended to the parent's child list before
\* the path map is consulted, so a repeated insertion extends the list.
add_node_ReAppend(ns, map, path, is_directory, parent_path) ==
  IF path \in DOMAIN map
  THEN [nodes |-> IF parent_path \in DOMAIN map
                  THEN [ns EXCEPT ![map[parent_path] + 1] =
                          add_child(ns[map[parent_path] + 1], map[path])]
                  ELSE ns,
        path_to_index |-> map, ret |-> Some(map[path])]
  ELSE IF parent_path \notin DOMAIN map
  THEN [nodes |-> ns, path_to_index |-> map, ret |-> None]
  ELSE LET node_index == Len(ns)
           fresh      == FileNode_new(path, is_directory, Some(map[parent_path]))
           node       == IF ~is_directory
                         THEN [fresh EXCEPT !.is_text_file = is_text_file(path)]
                         ELSE fresh
           pushed     == Append(ns, node)
       IN  [ nodes         |-> [pushed EXCEPT ![map[parent_path] + 1] =
                                   add_child(pushed[map[parent_path] + 1], node_index)],
             path_to_index |-> [p \in DOMAIN map \cup {path} |->
                                   IF p = path THEN node_index ELSE map[p]],
             ret           |-> Some(node_index) ]

\* Faulty variant: the node is pushed and registered before the parent is
\* looked up, so a node with an unknown parent stays in the arena.
add_node_OrphanPush(ns, map, path, is_directory, parent_path) ==
  IF path \in DOMAIN map
  THEN [nodes |-> ns, path_to_index |-> map, ret |-> Some(map[path])]
  ELSE LET node_index == Len(ns)
           parent     == IF parent_path \in DOMAIN map
                         THEN Some(map[parent_path]) ELSE None
           fresh      == FileNode_new(path, is_directory, parent)
           node       == IF ~is_directory
                         THEN [fresh EXCEPT !.is_text_file = is_text_file(path)]
                         ELSE fresh
           pushed     == Append(ns, node)
           newmap     == [p \in DOMAIN map \cup {path} |->
                            IF p = path THEN node_index ELSE map[p]]
       IN  IF IsSome(parent)
           THEN [ nodes |-> [pushed EXCEPT ![Unwrap(parent) + 1] =
                               add_child(pushed[Unwrap(parent) + 1], node_index)],
                  path_to_index |-> newmap, ret |-> Some(node_index) ]
           ELSE [nodes |-> pushed, path_to_index |-> newmap, ret |-> None]

\* DirectoryTree::add_node: the tree after the call and the returned Option.
\* Faulty variant: the new index goes to the front of the parent's children.
add_node_Prepend(ns, map, path, is_directory, parent_path) ==
  IF path \in DOMAIN map
  THEN [nodes |-> ns, path_to_index |-> map, ret |-> Some(map[path])]
  ELSE IF parent_path \notin DOMAIN map
  THEN [nodes |-> ns, path_to_index |-> map, ret |-> None]
  ELSE LET parent_index == map[parent_path]
           node_index   == Len(ns)
           fresh        == FileNode_new(path, is_directory, Some(parent_index))
           node         == IF ~is_directory
                           THEN [fresh EXCEPT !.is_text_file = is_text_file(path)]
                           ELSE fresh
           pushed       == Append(ns, node)
       IN  [ nodes         |-> [pushed EXCEPT ![parent_index + 1].children =
                                   <<node_index>> \o pushed[parent_index + 1].children],
             path_to_index |-> [p \in DOMAIN map \cup {path} |->
                                   IF p = path THEN node_index ELSE map[p]],
             ret           |-> Some(node_index) ]

add_node(ns, map, path, is_directory, parent_path) ==
  IF path \in DOMAIN map
  THEN [nodes |-> ns, path_to_index |-> map, ret |-> Some(map[path])]
  ELSE IF parent_path \notin DOMAIN map
  THEN [nodes |-> ns, path_to_index |-> map, ret |-> None]
  ELSE LET parent_index == map[parent_path]
           node_index   == Len(ns)
           fresh        == FileNode_new(path, is_directory, Some(parent_index))
           node         == IF ~is_directory
                           THEN [fresh EXCEPT !.is_text_file = is_text_file(path)]
                           ELSE fresh
           pushed       == Append(ns, node)
       IN  [ nodes         |-> [pushed EXCEPT ![parent_index + 1] =
                                   add_child(pushed[parent_index + 1], node_index)],
             path_to_index |-> [p \in DOMAIN map \cup {path} |->
                                   IF p = path THEN node_index ELSE map[p]],
             ret           |-> Some(node_index) ]

\* DirectoryTree::propagate_to_children: the for loop over the cloned child
\* list from its k-th element on (propagate_loop), each child overwritten
\* and then its own subtree.
RECURSIVE propagate_to_children(_, _, _)
RECURSIVE propagate_loop(_, _, _, _)
propagate_loop(ns, children, k, state) ==
  IF k > Len(children) THEN ns
  ELSE LET child_index == children[k]
           written     == IF IsSome(get_node(ns, child_index))
                          THEN [ns EXCEPT ![child_index + 1].state = state]
                          ELSE ns
       IN  propagate_loop(propagate_to_children(written, child_index, state),
                          children, k + 1, state)

\* Faulty variant: the immediate children are overwritten, their subtrees are not.
propagate_to_children_OneLevel(ns, parent_index, state) ==
  IF state = Partial THEN ns
  ELSE [i \in 1..Len(ns) |->
          IF \E k \in 1..Len(ns[parent_index + 1].children) :
               ns[parent_index + 1].children[k] = i - 1
          THEN [ns[i] EXCEPT !.state = state] ELSE ns[i]]

\* Faulty variant: Partial is cascaded like the other two states.
propagate_to_children_AnyState(ns, parent_index, state) ==
  propagate_loop(ns, ns[parent_index + 1].children, 1, state)

propagate_to_children(ns, parent_index, state) ==
  IF state = Partial THEN ns
  ELSE propagate_loop(ns, ns[parent_index + 1].children, 1, state)

\* The counting loop of update_parent_state: how many of the children hold
\* state s.
count_children(ns, children, s) ==
  Cardinality({k \in 1..Len(children) :
                 /\ IsSome(get_node(ns, children[k]))
                 /\ ns[children[k] + 1].state = s})

\* new_state of update_parent_state, from the three counts.
aggregate_children(ns, children) ==
  LET included_count == count_children(ns, children, Included)
      excluded_count == count_children(ns, children, Excluded)
      partial_count  == count_children(ns, children, Partial)
  IN  IF partial_count > 0 \/ (included_count > 0 /\ excluded_count > 0)
      THEN Partial
      ELSE IF included_count > 0 THEN Included
      ELSE Excluded

RECURSIVE update_parent_state(_, _)

\* Faulty variant: the parent is recomputed, the walk to the root is left out.
update_parent_state_NoWalk(ns, parent_index) ==
  LET children == ns[parent_index + 1].children
  IN  IF children = <<>> THEN ns
      ELSE [ns EXCEPT ![parent_index + 1].state = aggregate_children(ns, children)]

\* Faulty variant: the grandparent is recomputed before the parent's new state is
\* written, so it aggregates the parent's stale state.
update_parent_state_Stale(ns, parent_index) ==
  LET children == ns[parent_index + 1].children
  IN  IF children = <<>> THEN ns
      ELSE LET walked == IF IsSome(ns[parent_index + 1].parent)
                         THEN update_parent_state(ns, Unwrap(ns[parent_index + 1].parent))
                         ELSE ns
           IN  [walked EXCEPT ![parent_index + 1].state =
                                 aggregate_children(ns, children)]

\* DirectoryTree::update_parent_state
update_parent_state(ns, parent_index) ==
  LET children == ns[parent_index + 1].children
  IN  IF children = <<>> THEN ns
      ELSE LET new_state == aggregate_children(ns, children)
               written   == [ns EXCEPT ![parent_index + 1].state = new_state]
           IN  IF IsSome(written[parent_index + 1].parent)
               THEN update_parent_state(written, Unwrap(written[parent_index + 1].parent))
               ELSE written

\* Faulty variant: an index past the end is clamped to the last node
\* instead of being rejected.
set_state_Clamped(ns, index, state) ==
  LET i            == IF index < Len(ns) THEN index ELSE Len(ns) - 1
      written      == [ns EXCEPT ![i + 1].state = state]
      parent_index == written[i + 1].parent
      propagated   == propagate_to_children(written, i, state)
  IN  IF IsSome(parent_index)
      THEN update_parent_state(propagated, Unwrap(parent_index))
      ELSE propagated

\* Faulty variant: the state is written into every node of the arena.
set_state_Broadcast(ns, index, state) ==
  IF IsSome(get_node(ns, index))
  THEN [k \in 1..Len(ns) |-> [ns[k] EXCEPT !.state = state]]
  ELSE ns

\* Faulty variant: the ancestors are not re-aggregated.
set_state_NoAggregate(ns, index, state) ==
  IF IsSome(get_node(ns, index))
  THEN propagate_to_children([ns EXCEPT ![index + 1].state = state], index, state)
  ELSE ns

\* DirectoryTree::set_state
set_state(ns, index, state) ==
  IF IsSome(get_node(ns, index))
  THEN LET written      == [ns EXCEPT ![index + 1].state = state]
           parent_index == written[index + 1].parent
           propagated   == propagate_to_children(written, index, state)
       IN  IF IsSome(parent_index)
           THEN update_parent_state(propagated, Unwrap(parent_index))
           ELSE propagated
  ELSE ns

\* DirectoryTree::toggle_state
toggle_state(ns, index) ==
  IF IsSome(get_node(ns, index))
  THEN set_state(ns, index, toggle(ns[index + 1].state))
  ELSE ns

\* DirectoryTree::collect_included_files: the indices pushed while visiting
\* the subtree of `index`, in push order (collect_loop is the for loop over
\* the children from the k-th on).
RECURSIVE collect_included_files(_, _)
RECURSIVE collect_loop(_, _, _)
\* Faulty variant: the children are visited last to first.
collect_loop_Reversed(ns, children, k) ==
  IF k > Len(children) THEN <<>>
  ELSE collect_loop(ns, children, k + 1) \o collect_included_files(ns, children[k])

collect_loop(ns, children, k) ==
  IF k > Len(children) THEN <<>>
  ELSE collect_included_files(ns, children[k]) \o collect_loop(ns, children, k + 1)

collect_included_files(ns, index) ==
  IF IsSome(get_node(ns, index))
  THEN LET node == ns[index + 1]
           own  == IF is_included(node.state) /\ ~node.is_directory /\ node.is_text_file
                   THEN <<index>> ELSE <<>>
       IN  own \o collect_loop(ns, node.children, 1)
  ELSE <<>>

\* DirectoryTree::get_all_included_files: the returned node references, as
\* arena indices.
get_all_included_files(ns) == collect_included_files(ns, root_index)

\* ------------------------------------------------------------------- state
VARIABLES
  nodes,          \* DirectoryTree.nodes
  path_to_index,  \* DirectoryTree.path_to_index
  last,           \* the last public call: its arguments, the node states
                  \* before it and what it returned
  app             \* the App of the interactive mode, once it is constructed

vars == <<nodes, path_to_index, last, app>>

\* No App is constructed yet.
NoApp == [mode |-> "None"]

\* The record of a call: which operation, its index and state arguments
\* (-1 and "-" when it has none), the state node `index` held when
\* toggle_state read it, and what the call returned.
Call(op, index, state, old, ret) ==
  [op |-> op, index |-> index, state |-> state, old |-> old, ret |-> ret]

Init ==
  /\ nodes = DirectoryTree_new(RootPath).nodes
  /\ path_to_index = DirectoryTree_new(RootPath).path_to_index
  /\ last = Call("new", -1, "-", None, <<>>)
  /\ app = NoApp

\* tree.add_node(path, is_directory, parent_path).  A path that is not yet
\* in the tree is inserted under path.parent(), as the traverser calls it
\* (traversal.rs:68,80); a call for a path already inserted takes any
\* arguments.
AddNode(path, is_directory, parent_path) ==
  LET r == add_node(nodes, path_to_index, path, is_directory, parent_path)
  IN  /\ path \in DOMAIN path_to_index \/ parent_path = parent_or_root(path, RootPath)
      /\ Len(r.nodes) <= MaxNodes
      /\ nodes' = r.nodes
      /\ path_to_index' = r.path_to_index
      /\ last' = Call("add_node", -1, "-", None, r.ret)
      /\ UNCHANGED app

\* tree.set_state(index, state)
SetState(index, state) ==
  /\ nodes' = set_state(nodes, index, state)
  /\ last' = Call("set_state", index, state, None, <<>>)
  /\ UNCHANGED <<path_to_index, app>>

\* tree.toggle_state(index)
ToggleState(index) ==
  /\ nodes' = toggle_state(nodes, index)
  /\ last' = Call("toggle_state", index, "-",
                  IF IsSome(get_node(nodes, index))
                  THEN Some(nodes[index + 1].state) ELSE None, <<>>)
  /\ UNCHANGED <<path_to_index, app>>

\* tree.get_all_included_files()
GetAllIncludedFiles ==
  /\ last' = Call("get_all_included_files", -1, "-", None,
                  get_all_included_files(nodes))
  /\ UNCHANGED <<nodes, path_to_index, app>>

\* Indices up to the arena's length are tried, so one invalid index is too.
Next ==
  \/ \E path \in Paths, is_directory \in BOOLEAN, parent_path \in Paths :
       AddNode(path, is_directory, parent_path)
  \/ \E index \in 0..Len(nodes), state \in SelectionState : SetState(index, state)
  \/ \E index \in 0..Len(nodes) : ToggleState(index)
  \/ GetAllIncludedFiles

Spec == Init /\ [][Next]_vars

\* ------------------------------------------------------- string primitives
\* str::starts_with / str::ends_with
starts_with(s, prefix) ==
  Len(prefix) <= Len(s) /\ SubSeq(s, 1, Len(prefix)) = prefix

ends_with(s, suffix) ==
  Len(suffix) <= Len(s) /\ SubSeq(s, Len(s) - Len(suffix) + 1, Len(s)) = suffix

\* str::replace: every non-overlapping occurrence of `from`, left to right.
RECURSIVE str_replace(_, _, _)
str_replace(s, from, to) ==
  IF s = <<>> THEN <<>>
  ELSE IF starts_with(s, from)
       THEN to \o str_replace(SubSeq(s, Len(from) + 1, Len(s)), from, to)
       ELSE <<s[1]>> \o str_replace(SubSeq(s, 2, Len(s)), from, to)

\* The parts of a path between separators; empty parts and "." are dropped,
\* as Path::components does.
RECURSIVE path_parts(_)
path_parts(p) ==
  IF p = <<>> THEN <<>>
  ELSE LET slashes == {i \in 1..Len(p) : p[i] = "/"}
           k       == IF slashes = {} THEN Len(p) + 1
                      ELSE CHOOSE i \in slashes : \A j \in slashes : i <= j
           head    == SubSeq(p, 1, k - 1)
           rest    == path_parts(SubSeq(p, k + 1, Len(p)))
       IN  IF head = <<>> \/ head = <<".">> THEN rest ELSE <<head>> \o rest

has_root(p) == p # <<>> /\ p[1] = "/"

\* The parts joined with "/" (to_string_lossy of a relative path).
RECURSIVE join_parts(_)
join_parts(parts) ==
  IF parts = <<>> THEN <<>>
  ELSE IF Len(parts) = 1 THEN parts[1]
  ELSE parts[1] \o <<"/">> \o join_parts(Tail(parts))

\* Path::strip_prefix: Some(the remaining relative path) when `base` is a
\* component-wise prefix of `path`, None otherwise.
strip_prefix(path, base) ==
  LET pp == path_parts(path)
      bp == path_parts(base)
  IN  IF has_root(path) = has_root(base) /\ Len(bp) <= Len(pp)
         /\ SubSeq(pp, 1, Len(bp)) = bp
      THEN Some(join_parts(SubSeq(pp, Len(bp) + 1, Len(pp))))
      ELSE None

\* ------------------------------- path_matches_pattern (main.rs:223-253)
\* The chain of replace calls that turns the glob into a regex.
regex_pattern(pattern) ==
  str_replace(
    str_replace(
      str_replace(
        str_replace(pattern, <<".">>, <<"\\", ".">>),
        <<"*", "*">>, <<".", "*">>),
      <<"*">>, <<"[", "^", "/", "]", "*">>),
    <<"?">>, <<".">>)

\* The regex as a sequence of atoms: a literal character ("lit"), any
\* character ("any", written .) or any character but the separator
\* ("notslash", written [^/]), each possibly starred.
RECURSIVE regex_atoms(_)
regex_atoms(r) ==
  IF r = <<>> THEN <<>>
  ELSE LET one ==
             IF r[1] = "\\" /\ Len(r) >= 2
             THEN [atom |-> [kind |-> "lit", ch |-> r[2]], len |-> 2]
             ELSE IF starts_with(r, <<"[", "^", "/", "]">>)
             THEN [atom |-> [kind |-> "notslash", ch |-> "/"], len |-> 4]
             ELSE IF r[1] = "."
             THEN [atom |-> [kind |-> "any", ch |-> "."], len |-> 1]
             ELSE [atom |-> [kind |-> "lit", ch |-> r[1]], len |-> 1]
           starred == Len(r) > one.len /\ r[one.len + 1] = "*"
           used    == IF starred THEN one.len + 1 ELSE one.len
       IN  <<[kind |-> one.atom.kind, ch |-> one.atom.ch, star |-> starred]>>
             \o regex_atoms(SubSeq(r, used + 1, Len(r)))

\* One character against one atom.
atom_matches(a, c) ==
  CASE a.kind = "lit"      -> c = a.ch
    [] a.kind = "any"      -> c # "\n"
    [] a.kind = "notslash" -> c # "/"

\* Regex::is_match of the anchored regex ^atoms$: atoms from the k-th on
\* against the text from position j on.
RECURSIVE regex_match(_, _, _, _)
regex_match(atoms, k, text, j) ==
  IF k > Len(atoms) THEN j > Len(text)
  ELSE IF atoms[k].star
  THEN \/ regex_match(atoms, k + 1, text, j)
       \/ /\ j <= Len(text)
          /\ atom_matches(atoms[k], text[j])
          /\ regex_match(atoms, k, text, j + 1)
  ELSE /\ j <= Len(text)
       /\ atom_matches(atoms[k], text[j])
       /\ regex_match(atoms, k + 1, text, j + 1)

\* regex::Regex::new: of the patterns of this model only one with an
\* unclosed "(" fails to compile.
regex_new_is_ok(r) ==
  ~( (\E i \in 1..Len(r) : r[i] = "(") /\ ~(\E i \in 1..Len(r) : r[i] = ")") )

\* Faulty variant: the suffix shortcut is missing, so "*.rs" goes through
\* the regex translation, where "*" stops at a separator.
path_matches_pattern_NoSuffixBranch(path, pattern) ==
  IF pattern = <<"*", "*", "/", "*">> THEN TRUE
  ELSE IF ends_with(pattern, <<"*">>)
  THEN starts_with(path, SubSeq(pattern, 1, Len(pattern) - 1))
  ELSE IF regex_new_is_ok(regex_pattern(pattern))
  THEN regex_match(regex_atoms(regex_pattern(pattern)), 1, path, 1)
  ELSE path = pattern

\* path_matches_pattern
path_matches_pattern(path, pattern) ==
  IF pattern = <<"*", "*", "/", "*">> THEN TRUE
  ELSE IF ends_with(pattern, <<"*">>)
  THEN starts_with(path, SubSeq(pattern, 1, Len(pattern) - 1))
  ELSE IF starts_with(pattern, <<"*">>)
  THEN ends_with(path, SubSeq(pattern, 2, Len(pattern)))
  ELSE IF regex_new_is_ok(regex_pattern(pattern))
  THEN regex_match(regex_atoms(regex_pattern(pattern)), 1, path, 1)
  ELSE path = pattern

\* ---------------------------------------- apply_patterns (main.rs:168-221)
\* The first loop of apply_patterns: some include pattern matches the
\* relative path or the name.
any_pattern_matches(relative_path, name, patterns) ==
  \E k \in 1..Len(patterns) :
    \/ path_matches_pattern(relative_path, patterns[k])
    \/ path_matches_pattern(name, patterns[k])

\* Faulty variant: the exclude patterns are checked first, so the default
\* and the include patterns override them.
should_include_ExcludeFirst(ns, i, include, exclude) ==
  LET node          == ns[i + 1]
      stripped      == strip_prefix(node.path, ns[root_index + 1].path)
      relative_path == IF IsSome(stripped) THEN Unwrap(stripped) ELSE node.path
  IN  IF include = <<>> \/ any_pattern_matches(relative_path, node.name, include)
      THEN TRUE
      ELSE ~any_pattern_matches(relative_path, node.name, exclude)

\* should_include of one node.
should_include(ns, i, include, exclude) ==
  LET node          == ns[i + 1]
      stripped      == strip_prefix(node.path, ns[root_index + 1].path)
      relative_path == IF IsSome(stripped) THEN Unwrap(stripped) ELSE node.path
      include_all   == include = <<>>
      after_include == include_all \/ any_pattern_matches(relative_path, node.name, include)
  IN  IF any_pattern_matches(relative_path, node.name, exclude) THEN FALSE
      ELSE after_include

\* The for loop of apply_patterns from index i on: one set_state per node,
\* in arena order.
\* Faulty variant: the nodes are decided from the last index down, so the
\* decision of a directory overwrites those of the nodes below it.
RECURSIVE apply_patterns_loop_Down(_, _, _, _)
apply_patterns_loop_Down(ns, i, include, exclude) ==
  IF i >= Len(ns) THEN ns
  ELSE LET n         == Len(ns) - 1 - i
           new_state == IF should_include(ns, n, include, exclude)
                        THEN Included ELSE Excluded
       IN  apply_patterns_loop_Down(set_state(ns, n, new_state), i + 1, include, exclude)

RECURSIVE apply_patterns_loop(_, _, _, _)
apply_patterns_loop(ns, i, include, exclude) ==
  IF i >= Len(ns) THEN ns
  ELSE LET new_state == IF should_include(ns, i, include, exclude)
                        THEN Included ELSE Excluded
       IN  apply_patterns_loop(set_state(ns, i, new_state), i + 1, include, exclude)

apply_patterns(ns, include, exclude) == apply_patterns_loop(ns, 0, include, exclude)

\* -------------------------- DirectoryTraverser (traversal.rs:7-120)
\* should_include_entry_by_path: hidden names are skipped unless show_hidden
\* is set or the name is one of the allowed configuration files.
AllowedHiddenNames ==
  { <<".", "g", "i", "t", "i", "g", "n", "o", "r", "e">>,
    <<".", "g", "i", "t", "a", "t", "t", "r", "i", "b", "u", "t", "e", "s">>,
    <<".", "e", "d", "i", "t", "o", "r", "c", "o", "n", "f", "i", "g">>,
    <<".", "e", "n", "v">>,
    <<".", "e", "n", "v", ".", "e", "x", "a", "m", "p", "l", "e">> }

should_include_entry_by_path(show_hidden, path) ==
  IF ~show_hidden /\ IsSome(file_name(path))
  THEN LET name_str == Unwrap(file_name(path))
       IN  ~( /\ starts_with(name_str, <<".">>)
              /\ name_str # <<".">> /\ name_str # <<".", ".">>
              /\ name_str \notin AllowedHiddenNames )
  ELSE TRUE

\* std::fs::metadata(path): Some(length) for a file on disk.
metadata_len(path) ==
  IF Disk(path).kind = "file" THEN Some(Len(Disk(path).bytes))
  ELSE IF Disk(path).kind = "dir" THEN Some(0)
  ELSE None

\* Faulty variant: an inserted node keeps the state FileNode::new gave it.
traverse_entry_NoSetState(t, cfg, root_path, path) ==
  LET is_directory == Disk(path).kind = "dir"
      r == add_node(t.nodes, t.path_to_index, path, is_directory,
                    parent_or_root(path, root_path))
  IN  IF path = root_path THEN t
      ELSE IF ~should_include_entry_by_path(cfg.show_hidden, path) THEN t
      ELSE IF /\ ~is_directory
              /\ IsSome(metadata_len(path))
              /\ Unwrap(metadata_len(path)) > cfg.max_file_size THEN t
      ELSE [nodes |-> r.nodes, path_to_index |-> r.path_to_index]

\* The body of the walker loop of traverse for one entry.
traverse_entry(t, cfg, root_path, path) ==
  LET is_directory  == Disk(path).kind = "dir"
      parent_path   == parent_or_root(path, root_path)
      initial_state == IF cfg.include_all THEN Included ELSE Excluded
      too_large     == /\ ~is_directory
                       /\ IsSome(metadata_len(path))
                       /\ Unwrap(metadata_len(path)) > cfg.max_file_size
      r             == add_node(t.nodes, t.path_to_index, path, is_directory, parent_path)
      sized         == IF ~is_directory /\ IsSome(metadata_len(path))
                       THEN [r.nodes EXCEPT ![Unwrap(r.ret) + 1].size = metadata_len(path)]
                       ELSE r.nodes
  IN  IF path = root_path THEN t
      ELSE IF ~should_include_entry_by_path(cfg.show_hidden, path) THEN t
      ELSE IF too_large THEN t
      ELSE IF IsSome(r.ret)
      THEN [nodes |-> set_state(sized, Unwrap(r.ret), initial_state),
            path_to_index |-> r.path_to_index]
      ELSE [nodes |-> r.nodes, path_to_index |-> r.path_to_index]

RECURSIVE traverse_loop(_, _, _, _, _)
traverse_loop(t, cfg, root_path, entries, k) ==
  IF k > Len(entries) THEN t
  ELSE traverse_loop(traverse_entry(t, cfg, root_path, entries[k]),
                     cfg, root_path, entries, k + 1)

\* DirectoryTraverser::traverse over the entries the walker yields, in the
\* order it yields them.
traverse(cfg, root_path, entries) ==
  LET t0 == DirectoryTree_new(root_path)
      initial_state == IF cfg.include_all THEN Included ELSE Excluded
      t1 == [nodes |-> set_state(t0.nodes, root_index, initial_state),
             path_to_index |-> t0.path_to_index]
  IN  traverse_loop(t1, cfg, root_path, entries, 1)

\* ----------------------------------------------- loading a tree (main.rs)
\* DEFAULT_MAX_FILE_SIZE of constants.rs
DEFAULT_MAX_FILE_SIZE == 2 * 1024 * 1024

\* Longest sequence of entries the walker yields.
MaxEntries == 3

\* Longest include or exclude list.
MaxPatterns == 1

\* The injective sequences over S of length at most n.
InjectiveSeqs(S, n) ==
  {s \in UNION {[1..k -> S] : k \in 0..n} :
     \A i, j \in 1..Len(s) : i # j => s[i] # s[j]}

\* What the walker may yield: the root first, then entries under it, each
\* once and a directory before its contents; an unreadable entry is left out
\* (traversal.rs:51-54), and so is what lies below it.
WalkOrders ==
  { <<RootPath>> \o s : s \in
      { s \in InjectiveSeqs(Paths \ {RootPath}, MaxEntries) :
          \A i \in 1..Len(s) :
            \/ parent_or_root(s[i], RootPath) = RootPath
            \/ \E j \in 1..(i - 1) : s[j] = parent_or_root(s[i], RootPath) } }

\* The traverser settings a tree is loaded with.
TraverseConfigs ==
  [include_all : BOOLEAN, show_hidden : BOOLEAN,
   max_file_size : {2, DEFAULT_MAX_FILE_SIZE}]

\* The glob patterns given on the command line.
PatBin    == <<"*", ".", "b", "i", "n">>
PatTxt    == <<"*", ".", "t", "x", "t">>
PatSub    == <<"s", "u", "b">>
PatSubAll == <<"s", "u", "b", "/", "*">>
PatA      == <<"a", ".", "t", "x", "t">>

PatternUniverse == {PatBin, PatTxt, PatSub, PatSubAll, PatA}

PatternLists == UNION {[1..k -> PatternUniverse] : k \in 0..MaxPatterns}

\* traverser.traverse(&cli.root)
Traverse(cfg, entries) ==
  /\ last.op = "new"
  /\ nodes' = traverse(cfg, RootPath, entries).nodes
  /\ path_to_index' = traverse(cfg, RootPath, entries).path_to_index
  /\ last' = [op |-> "traverse", include_all |-> cfg.include_all]
  /\ UNCHANGED app

\* build_directory_tree after the traversal: apply_patterns on the loaded
\* tree, when an include or an exclude pattern was given.
ApplyPatterns(include, exclude) ==
  /\ last.op = "traverse"
  /\ include # <<>> \/ exclude # <<>>
  /\ nodes' = apply_patterns(nodes, include, exclude)
  /\ last' = [op |-> "apply_patterns", include |-> include, exclude |-> exclude]
  /\ UNCHANGED <<path_to_index, app>>

NextPatterns ==
  \/ \E cfg \in TraverseConfigs, entries \in WalkOrders : Traverse(cfg, entries)
  \/ \E include \in PatternLists, exclude \in PatternLists :
       ApplyPatterns(include, exclude)

SpecPatterns == Init /\ [][NextPatterns]_vars

\* ------------------------------------------- traverse in any entry order
\* The entries in any order, the root among them anywhere, whether or not a
\* directory comes before its contents.
AnyOrders == InjectiveSeqs(Paths, MaxEntries + 1)

InitTraverse ==
  /\ nodes = DirectoryTree_new(RootPath).nodes
  /\ path_to_index = DirectoryTree_new(RootPath).path_to_index
  /\ \E cfg \in TraverseConfigs, entries \in AnyOrders :
       last = [op |-> "input", cfg |-> cfg, entries |-> entries]
  /\ app = NoApp

\* traverser.traverse(root_path) on the drawn settings and entries
TraverseAny ==
  /\ last.op = "input"
  /\ \E t \in {traverse(last.cfg, RootPath, last.entries)} :
       /\ nodes' = t.nodes
       /\ path_to_index' = t.path_to_index
  /\ last' = [op |-> "traverse", include_all |-> last.cfg.include_all,
              entries |-> last.entries]
  /\ UNCHANGED app

NextTraverse == TraverseAny

SpecTraverse == InitTraverse /\ [][NextTraverse]_vars

\* ------------------------------------ path_matches_pattern on its own
\* Longest path and longest pattern tried.
MaxPathLen == 3
MaxPatternLen == 3

StringsUpTo(alphabet, n) == UNION {[1..k -> alphabet] : k \in 0..n}

ExSrcMainRs    == <<"s","r","c","/","m","a","i","n",".","r","s">>
ExSrcMainRsBak == <<"s","r","c","/","m","a","i","n",".","r","s",".","b","a","k">>
ExSrcABMainRs  == <<"s","r","c","/","a","/","b","/","m","a","i","n",".","r","s">>
ExSrcAMainRs   == <<"s","r","c","/","a","/","m","a","i","n",".","r","s">>

ExPatAll       == <<"*","*","/","*">>
ExPatRs        == <<"*",".","r","s">>
ExPatDeep      == <<"s","r","c","/","*","*","/","m","a","i","n",".","r","s">>
ExPatStar      == <<"s","r","c","/","*","/","m","a","i","n",".","r","s">>
ExPatParen     == <<"a","(">>

MatchPaths ==
  StringsUpTo({"a", "/", "."}, MaxPathLen)
    \cup {ExSrcMainRs, ExSrcMainRsBak, ExSrcABMainRs, ExSrcAMainRs, ExPatParen}

MatchPatterns ==
  StringsUpTo({"a", "/", ".", "*", "?"}, MaxPatternLen)
    \cup {ExPatAll, ExPatRs, ExPatDeep, ExPatStar, ExPatParen}

\* The inputs of one call, drawn before the call.
InitMatch ==
  /\ nodes = DirectoryTree_new(RootPath).nodes
  /\ path_to_index = DirectoryTree_new(RootPath).path_to_index
  /\ \E path \in MatchPaths, pattern \in MatchPatterns :
       last = [op |-> "input", path |-> path, pattern |-> pattern]
  /\ app = NoApp

\* path_matches_pattern(path, pattern)
MatchPattern ==
  /\ last.op = "input"
  /\ last' = [op |-> "path_matches_pattern", path |-> last.path,
              pattern |-> last.pattern,
              ret |-> path_matches_pattern(last.path, last.pattern)]
  /\ UNCHANGED <<nodes, path_to_index, app>>

NextMatch == MatchPattern

SpecMatch == InitMatch /\ [][NextMatch]_vars

\* ------------------------------------------------------------ fuzzy filter

\* Bound on the scores the matcher hands out.
MaxScore == 2

Scores == 1..MaxScore

\* Smart case of the matcher: a query with an upper-case letter is matched
\* case-sensitively, any other query ignoring case.
case_sensitive(query) == \E i \in 1..Len(query) : LowerChar(query[i]) # query[i]

char_equal(t, q, cs) == IF cs THEN t = q ELSE LowerChar(t) = LowerChar(q)

\* The ways the query occurs in the text as a subsequence: each a sequence
\* of the 0-based positions of the query's characters in the text.
RECURSIVE Embeddings(_, _, _, _)
Embeddings(text, query, k, from) ==
  IF k > Len(query) THEN {<<>>}
  ELSE UNION { { <<j - 1>> \o rest : rest \in Embeddings(text, query, k + 1, j + 1) } :
               j \in { j \in from..Len(text) :
                         char_equal(text[j], query[k], case_sensitive(query)) } }

\* SkimMatcherV2::fuzzy_indices(text, query) of the fuzzy_matcher crate: no
\* match when the query is no subsequence of the text, otherwise a score and
\* the matched positions.  The crate decides score and alignment; the model
\* leaves both open.
fuzzy_indices(text, query) ==
  IF Embeddings(text, query, 1, 1) = {} THEN {None}
  ELSE { Some([score |-> s, indices |-> e]) :
           s \in Scores, e \in Embeddings(text, query, 1, 1) }

\* FuzzySearch::search
search(query, text) == fuzzy_indices(text, query)

\* The matcher's answers over a whole list of texts, one per item.
RECURSIVE SearchRuns(_, _, _)
SearchRuns(texts, query, i) ==
  IF i > Len(texts) THEN {<<>>}
  ELSE { <<o>> \o rest : o \in search(query, texts[i]),
                         rest \in SearchRuns(texts, query, i + 1) }

\* MatchResult::new
MatchResult_new(score, indices, item_index) ==
  [score |-> score, indices |-> indices, item_index |-> item_index]

\* The loop of search_items: one result per item the matcher matched.
RECURSIVE push_loop(_, _)
push_loop(found, i) ==
  IF i > Len(found) THEN <<>>
  ELSE IF IsSome(found[i])
  THEN <<MatchResult_new(Unwrap(found[i]).score, Unwrap(found[i]).indices, i - 1)>>
         \o push_loop(found, i + 1)
  ELSE push_loop(found, i + 1)

\* Number of leading results of a sorted list that stay in front of x.
RECURSIVE KeepBefore(_, _, _)
KeepBefore(sorted, x, strict) ==
  IF sorted = <<>> THEN 0
  ELSE IF (IF strict THEN Head(sorted).score > x.score
                     ELSE Head(sorted).score >= x.score)
  THEN 1 + KeepBefore(Tail(sorted), x, strict)
  ELSE 0

\* Faulty variant: a result goes in front of the results of equal score.
RECURSIVE sort_by_Unstable(_, _)
sort_by_Unstable(results, n) ==
  IF n = 0 THEN <<>>
  ELSE LET sorted == sort_by_Unstable(results, n - 1)
           k      == KeepBefore(sorted, results[n], TRUE)
       IN  SubSeq(sorted, 1, k) \o <<results[n]>> \o SubSeq(sorted, k + 1, Len(sorted))

\* results.sort_by(|a, b| b.score.cmp(&a.score)) on the first n results:
\* descending by score and stable, a result stays behind the earlier results
\* of equal score.
RECURSIVE sort_by(_, _)
sort_by(results, n) ==
  IF n = 0 THEN <<>>
  ELSE LET sorted == sort_by(results, n - 1)
           k      == KeepBefore(sorted, results[n], FALSE)
       IN  SubSeq(sorted, 1, k) \o <<results[n]>> \o SubSeq(sorted, k + 1, Len(sorted))

\* search_items; found holds the matcher's answer for each item.
search_items(items, query, found) ==
  IF query = <<>>
  THEN [i \in 1..Len(items) |-> MatchResult_new(0, <<>>, i - 1)]
  ELSE sort_by(push_loop(found, 1), Len(push_loop(found, 1)))

\* Faulty variant: every node is searchable.
searchable_nodes_All(ns) == [i \in 1..Len(ns) |-> i - 1]

\* The searchable nodes of filter_tree_nodes, as arena indices.
searchable_nodes(ns) ==
  SelectSeq([i \in 1..Len(ns) |-> i - 1],
            LAMBDA i : ns[i + 1].is_directory \/ ns[i + 1].is_text_file)

\* The text of each searchable node: its path relative to the root, or its
\* name.
node_texts(ns) ==
  [k \in 1..Len(searchable_nodes(ns)) |->
     LET node == ns[searchable_nodes(ns)[k] + 1]
     IN  IF IsSome(strip_prefix(node.path, ns[root_index + 1].path))
         THEN Unwrap(strip_prefix(node.path, ns[root_index + 1].path))
         ELSE node.name]

\* Faulty variant: a match's place among the searchable nodes is taken for
\* its arena index.
filter_tree_nodes_RawIndex(ns, query, found) ==
  LET matches == search_items(node_texts(ns), query, found)
  IN  [matches       |-> matches,
       visible_items |-> [k \in 1..Len(matches) |-> matches[k].item_index]]

\* filter_tree_nodes
filter_tree_nodes(ns, query, found) ==
  LET matches == search_items(node_texts(ns), query, found)
  IN  [matches       |-> matches,
       visible_items |-> [k \in 1..Len(matches) |->
                            searchable_nodes(ns)[matches[k].item_index + 1]]]

Queries ==
  { <<>>, <<"s">>, <<"t">>, <<"S">>, <<"s", "b">>, <<".", "t">> }

\* filter_tree_nodes(&tree, query) on the loaded tree.  The matcher is only
\* run for a non-empty query.
FilterTreeNodes(query, found) ==
  /\ last.op = "traverse"
  /\ last' = [op |-> "filter_tree_nodes", query |-> query, found |-> found,
              ret |-> filter_tree_nodes(nodes, query, found)]
  /\ UNCHANGED <<nodes, path_to_index, app>>

NextFilter ==
  \/ \E cfg \in TraverseConfigs, entries \in WalkOrders : Traverse(cfg, entries)
  \/ \E query \in Queries :
       \E found \in (IF query = <<>> THEN {<<>>}
                     ELSE SearchRuns(node_texts(nodes), query, 1)) :
         FilterTreeNodes(query, found)

SpecFilter == Init /\ [][NextFilter]_vars

\* --------------------------------------------------- classifier at work

\* Longest run of printable bytes a sample starts with, and longest tail of
\* arbitrary bytes that follows it.
MaxPad == 20
MaxTail == 3

\* A printable byte, tab, a control byte, the lead bytes of 2-, 3- and 4-byte
\* sequences, a continuation byte, a byte that starts nothing, and NUL.
SampleBytes == {65, 9, 1, 195, 226, 240, 169, 255, 0}

\* The samples is_likely_text is run on.
Samples ==
  { [i \in 1..k |-> 65] \o tail :
      k \in 0..MaxPad, tail \in UNION {[1..n -> SampleBytes] : n \in 0..MaxTail} }

\* A file to insert or a sample to judge is chosen.
InitClassify ==
  /\ nodes = DirectoryTree_new(RootPath).nodes
  /\ path_to_index = DirectoryTree_new(RootPath).path_to_index
  /\ \/ \E path \in ClassifiedPaths :
          last = [op |-> "input", path |-> path, buffer |-> <<>>]
     \/ \E buffer \in Samples :
          last = [op |-> "input", path |-> <<>>, buffer |-> buffer]
  /\ app = NoApp

\* tree.add_node(path, false, parent) for a file, which classifies it.
InsertFile ==
  /\ last.op = "input" /\ last.path # <<>>
  /\ LET r == add_node(nodes, path_to_index, last.path, FALSE, RootPath)
     IN  /\ nodes' = r.nodes
         /\ path_to_index' = r.path_to_index
         /\ last' = [op |-> "insert_file", path |-> last.path, ret |-> r.ret]
         /\ UNCHANGED app

\* is_likely_text(&buffer)
LikelyText ==
  /\ last.op = "input" /\ last.path = <<>>
  /\ last' = [op |-> "is_likely_text", buffer |-> last.buffer,
              ret |-> is_likely_text(last.buffer)]
  /\ UNCHANGED <<nodes, path_to_index, app>>

NextClassify == InsertFile \/ LikelyText

SpecClassify == InitClassify /\ [][NextClassify]_vars

\* ------------------------------------------- selection on a loaded tree

\* The program after build_directory_tree: the tree is loaded by the
\* traverser, patterns are applied when given, and from then on it is only
\* changed by set_state with Included or Excluded and by toggle_state
\* (app.rs:101-130).
NextSelect ==
  \/ \E cfg \in TraverseConfigs, entries \in WalkOrders : Traverse(cfg, entries)
  \/ \E include \in PatternLists, exclude \in PatternLists :
       ApplyPatterns(include, exclude)
  \/ \E index \in 0..Len(nodes), state \in {Included, Excluded} :
       last.op # "new" /\ SetState(index, state)
  \/ \E index \in 0..Len(nodes) : last.op # "new" /\ ToggleState(index)

SpecSelect == Init /\ [][NextSelect]_vars

\* ------------------------------------------------------- interactive mode

\* Longest search query that is typed.
MaxQuery == 1
\* Longest file path typed into the file-save prompt.
MaxFileSaveInput == 1

\* KeyModifiers of a key event, as the set of the modifiers held.
NONE    == {}
CONTROL == "CONTROL"
SHIFT   == "SHIFT"
ALT     == "ALT"

\* A key event: KeyCode::Char carries its character in c.
Key(code, c, modifiers) == [code |-> code, c |-> c, modifiers |-> modifiers]

\* The key presses the terminal delivers.  An upper-case letter arrives with
\* SHIFT held.
KeyEvents ==
  { Key(code, "", NONE) :
      code \in {"Esc", "Enter", "Backspace", "Up", "Down", "Left", "Right",
                "PageUp", "PageDown", "Home", "End", "Tab"} }
    \cup { Key("Char", "s", NONE), Key("Char", "z", NONE),
           Key("Char", "S", {SHIFT}), Key("Char", "s", {ALT}) }
    \cup { Key("Char", c, {CONTROL}) : c \in {"e", "h", "j", "k", "s"} }

\* An AppAction; SearchChar carries its character in c.
Action(kind, c) == [kind |-> kind, c |-> c]

\* handle_key_event
handle_key_event(key_event) ==
  IF CONTROL \in key_event.modifiers
  THEN IF key_event.code = "Char" /\ key_event.c = "e" THEN Some(Action("Export", ""))
       ELSE IF key_event.code = "Char" /\ key_event.c = "h" THEN Some(Action("ShowHelp", ""))
       ELSE IF key_event.code = "Char" /\ key_event.c = "j" THEN Some(Action("MoveDown", ""))
       ELSE IF key_event.code = "Char" /\ key_event.c = "k" THEN Some(Action("MoveUp", ""))
       ELSE None
  ELSE CASE key_event.code = "Esc" -> Some(Action("Escape", ""))
         [] key_event.code = "Enter" -> Some(Action("ToggleSelection", ""))
         [] key_event.code = "Backspace" -> Some(Action("SearchBackspace", ""))
         [] key_event.code = "Up" -> Some(Action("MoveUp", ""))
         [] key_event.code = "Down" -> Some(Action("MoveDown", ""))
         [] key_event.code = "Left" -> Some(Action("MoveUp", ""))
         [] key_event.code = "Right" -> Some(Action("MoveDown", ""))
         [] key_event.code = "PageUp" -> Some(Action("PageUp", ""))
         [] key_event.code = "PageDown" -> Some(Action("PageDown", ""))
         [] key_event.code = "Home" -> Some(Action("MoveToTop", ""))
         [] key_event.code = "End" -> Some(Action("MoveToBottom", ""))
         [] key_event.code = "Char" /\ key_event.modifiers = NONE ->
              Some(Action("SearchChar", key_event.c))
         [] OTHER -> None

\* usize::saturating_sub
\* handle_key_event(key_event, &app.mode) as run_app calls it.  Outside the
\* file-save prompt it is the mapping of events.rs.  In the prompt the keys
\* are those its help line names, Enter to save and Esc to cancel, and the
\* keys that edit the path: Backspace and a character without modifier.
handle_key_event_mode(key_event, mode) ==
  IF mode # "FileSave" THEN handle_key_event(key_event)
  ELSE IF CONTROL \in key_event.modifiers THEN None
  ELSE CASE key_event.code = "Esc" -> Some(Action("Escape", ""))
         [] key_event.code = "Enter" -> Some(Action("FileSaveConfirm", ""))
         [] key_event.code = "Backspace" -> Some(Action("FileSaveBackspace", ""))
         [] key_event.code = "Char" /\ key_event.modifiers = NONE ->
              Some(Action("FileSaveChar", key_event.c))
         [] OTHER -> None

saturating_sub(x, y) == IF x >= y THEN x - y ELSE 0

\* FilteredResults::new
FilteredResults_new == [matches |-> <<>>, visible_items |-> <<>>]

\* App::update_scroll.  With viewport_height = 0 the subtraction
\* viewport_height - 1 overflows usize: a build with overflow checks panics,
\* one without wraps to usize::MAX, and the saturating_sub then gives 0.
update_scroll(a) ==
  IF a.selected_index < a.scroll_offset
  THEN [a EXCEPT !.scroll_offset = a.selected_index]
  ELSE IF a.selected_index >= a.scroll_offset + a.viewport_height
  THEN IF a.viewport_height = 0
       THEN IF a.overflow_checks THEN [a EXCEPT !.panicked = TRUE]
            ELSE [a EXCEPT !.scroll_offset = 0]
       ELSE [a EXCEPT !.scroll_offset =
               saturating_sub(a.selected_index, a.viewport_height - 1)]
  ELSE a

\* Faulty variant: the cursor is not pulled back into a shorter list.
update_filtered_results_NoClamp(a, ns, found) ==
  CHOOSE after \in
    { update_scroll(b) :
        b \in {[a EXCEPT !.filtered_results = filter_tree_nodes(ns, a.search_query, found)]} } :
    TRUE

\* App::update_filtered_results; found holds the matcher's answers.  b is
\* the App once the new results are stored.
update_filtered_results(a, ns, found) ==
  CHOOSE after \in
    { update_scroll(IF /\ b.selected_index >= Len(b.filtered_results.matches)
                       /\ Len(b.filtered_results.matches) # 0
                    THEN [b EXCEPT !.selected_index = Len(b.filtered_results.matches) - 1]
                    ELSE b) :
        b \in {[a EXCEPT !.filtered_results = filter_tree_nodes(ns, a.search_query, found)]} } :
    TRUE

\* App::new.  overflow_checks is the build's setting, no field of App;
\* panicked records that the process has aborted, returned_err that run_app
\* has returned an Err.
App_new(ns, overflow_checks) ==
  update_filtered_results(
    [ filtered_results |-> FilteredResults_new,
      selected_index   |-> 0,
      scroll_offset    |-> 0,
      search_query     |-> <<>>,
      mode             |-> "Main",
      should_quit      |-> FALSE,
      viewport_height  |-> 20,
      overflow_checks  |-> overflow_checks,
      panicked         |-> FALSE,
      returned_err     |-> FALSE,
      pending_content  |-> None,
      file_save_input  |-> <<>> ],
    ns, <<>>)

\* App::move_up
move_up(a) ==
  IF a.selected_index > 0
  THEN update_scroll([a EXCEPT !.selected_index = a.selected_index - 1])
  ELSE a

\* App::move_down
move_down(a) ==
  IF a.selected_index + 1 < Len(a.filtered_results.matches)
  THEN update_scroll([a EXCEPT !.selected_index = a.selected_index + 1])
  ELSE a

\* App::page_up
page_up(a) ==
  update_scroll([a EXCEPT !.selected_index =
    saturating_sub(a.selected_index, saturating_sub(a.viewport_height, 1))])

\* App::page_down
page_down(a) ==
  update_scroll([a EXCEPT !.selected_index =
    Min(a.selected_index + saturating_sub(a.viewport_height, 1),
        saturating_sub(Len(a.filtered_results.matches), 1))])

\* App::move_to_top
move_to_top(a) == update_scroll([a EXCEPT !.selected_index = 0])

\* App::move_to_bottom
move_to_bottom(a) ==
  IF a.filtered_results.matches # <<>>
  THEN update_scroll([a EXCEPT !.selected_index = Len(a.filtered_results.matches) - 1])
  ELSE a

\* App::get_selected_tree_index
get_selected_tree_index(a) ==
  IF a.selected_index < Len(a.filtered_results.visible_items)
  THEN Some(a.filtered_results.visible_items[a.selected_index + 1])
  ELSE None

\* App::toggle_selection, on the tree the App owns
toggle_selection(a, ns) ==
  IF IsSome(get_selected_tree_index(a))
  THEN toggle_state(ns, Unwrap(get_selected_tree_index(a)))
  ELSE ns

\* App::add_search_char
add_search_char(a, ns, c, found) ==
  update_filtered_results([a EXCEPT !.search_query = Append(a.search_query, c)], ns, found)

\* App::search_backspace: String::pop on an empty string does nothing.
search_backspace(a, ns, found) ==
  update_filtered_results(
    [a EXCEPT !.search_query =
       IF a.search_query = <<>> THEN <<>>
       ELSE SubSeq(a.search_query, 1, Len(a.search_query) - 1)],
    ns, found)

\* App::set_mode
set_mode(a, mode) == [a EXCEPT !.mode = mode]

\* App::quit
quit(a) == [a EXCEPT !.should_quit = TRUE]

\* App::handle_escape
handle_escape(a, ns, found) ==
  IF a.mode = "Help" THEN [a EXCEPT !.mode = "Main"]
  ELSE IF a.search_query # <<>>
  THEN update_filtered_results([a EXCEPT !.search_query = <<>>], ns, found)
  ELSE quit(a)

\* App::start_file_save opens the file-save prompt, the third mode of the
\* interface next to Main and Help: the content waits in pending_content
\* and the path to type is empty.  The content itself is not kept here.
start_file_save(a) ==
  [a EXCEPT !.mode = "FileSave",
            !.pending_content = Some("content"),
            !.file_save_input = <<>>]

\* App::add_file_save_char
add_file_save_char(a, c) == [a EXCEPT !.file_save_input = Append(@, c)]

\* App::file_save_backspace
file_save_backspace(a) ==
  IF a.file_save_input = <<>> THEN a
  ELSE [a EXCEPT !.file_save_input = SubSeq(@, 1, Len(@) - 1)]

\* The answers of save_file_from_dialog: the directories are created and
\* the file is written, or one of the two fails.
save_file_from_dialog == {"Ok", "Err"}

\* The FileSaveConfirm arm of run_app: with content pending the file is
\* saved and the App quits, or the ? hands the Err on to run_app.
file_save_confirm(a, outcome) ==
  IF ~IsSome(a.pending_content) THEN a
  ELSE IF outcome = "Err" THEN [a EXCEPT !.returned_err = TRUE]
  ELSE quit(a)

\* The answers of handle_output(tree, cli, settings, true).  With no file
\* included the content is empty and the answer is Quit.  Otherwise the
\* answer hangs on the disk, the -o flag and the clipboard: Quit after the
\* file or the clipboard was written, StartFileSave when the clipboard was
\* not, Err when a file could not be read or the output file not written.
handle_output(ns) ==
  IF get_all_included_files(ns) = <<>> THEN {"Quit"}
  ELSE {"Quit", "StartFileSave", "Err"}

\* handle_export: the ? hands an Err of handle_output on to run_app, which
\* returns it; the other answers are matched.
handle_export(a, outcome) ==
  CASE outcome = "Err" -> [a EXCEPT !.returned_err = TRUE]
    [] outcome = "Quit" -> quit(a)
    [] outcome = "StartFileSave" -> start_file_save(a)
    [] outcome = "Continue" -> a

\* The search query a key press leaves behind, which is what the matcher is
\* then run on.
query_after(a, action) ==
  IF ~IsSome(action) THEN a.search_query
  ELSE CASE Unwrap(action).kind = "SearchChar" -> Append(a.search_query, Unwrap(action).c)
         [] Unwrap(action).kind = "SearchBackspace" ->
              IF a.search_query = <<>> THEN <<>>
              ELSE SubSeq(a.search_query, 1, Len(a.search_query) - 1)
         [] OTHER -> <<>>

\* The match arm of run_app for one action: the App and the tree after it.
dispatch(a, ns, action, found, outcome) ==
  CASE action.kind = "Escape" -> [app |-> handle_escape(a, ns, found), nodes |-> ns]
    [] action.kind = "Export" -> [app |-> handle_export(a, outcome), nodes |-> ns]
    [] action.kind = "ShowHelp" -> [app |-> set_mode(a, "Help"), nodes |-> ns]
    [] action.kind = "ToggleSelection" -> [app |-> a, nodes |-> toggle_selection(a, ns)]
    [] action.kind = "MoveUp" -> [app |-> move_up(a), nodes |-> ns]
    [] action.kind = "MoveDown" -> [app |-> move_down(a), nodes |-> ns]
    [] action.kind = "PageUp" -> [app |-> page_up(a), nodes |-> ns]
    [] action.kind = "PageDown" -> [app |-> page_down(a), nodes |-> ns]
    [] action.kind = "MoveToTop" -> [app |-> move_to_top(a), nodes |-> ns]
    [] action.kind = "MoveToBottom" -> [app |-> move_to_bottom(a), nodes |-> ns]
    [] action.kind = "SearchChar" -> [app |-> add_search_char(a, ns, action.c, found), nodes |-> ns]
    [] action.kind = "SearchBackspace" -> [app |-> search_backspace(a, ns, found), nodes |-> ns]
    [] action.kind = "FileSaveChar" -> [app |-> add_file_save_char(a, action.c), nodes |-> ns]
    [] action.kind = "FileSaveBackspace" -> [app |-> file_save_backspace(a), nodes |-> ns]
    [] action.kind = "FileSaveConfirm" -> [app |-> file_save_confirm(a, outcome), nodes |-> ns]

\* Faulty variant: whatever the action, the node under the cursor is
\* toggled as well.
on_key_ToggleAlways(a, ns, key_event, found, outcome) ==
  IF a.mode = "Help" THEN [app |-> set_mode(a, "Main"), nodes |-> ns]
  ELSE IF IsSome(handle_key_event_mode(key_event, a.mode))
  THEN [app   |-> dispatch(a, ns, Unwrap(handle_key_event_mode(key_event, a.mode)), found, outcome).app,
        nodes |-> toggle_selection(a, ns)]
  ELSE [app |-> a, nodes |-> ns]

\* Faulty variant: a key pressed on the help screen that moves the cursor,
\* toggles or exports is carried out as well.
on_key_HelpInterprets(a, ns, key_event, found, outcome) ==
  IF /\ IsSome(handle_key_event_mode(key_event, a.mode))
     /\ a.mode = "Help" =>
          Unwrap(handle_key_event_mode(key_event, a.mode)).kind
            \notin {"SearchChar", "SearchBackspace", "Escape", "ShowHelp"}
  THEN dispatch(IF a.mode = "Help" THEN set_mode(a, "Main") ELSE a, ns,
                Unwrap(handle_key_event_mode(key_event, a.mode)), found, outcome)
  ELSE [app |-> set_mode(a, "Main"), nodes |-> ns]

\* The key branch of one turn of the loop of run_app: any key leaves Help
\* mode and is not interpreted; otherwise the key's action is carried out.
on_key(a, ns, key_event, found, outcome) ==
  IF a.mode = "Help" THEN [app |-> set_mode(a, "Main"), nodes |-> ns]
  ELSE IF IsSome(handle_key_event_mode(key_event, a.mode))
  THEN dispatch(a, ns, Unwrap(handle_key_event_mode(key_event, a.mode)), found, outcome)
  ELSE [app |-> a, nodes |-> ns]

\* Heights of the file list area the terminal gives, borders included.
AreaHeights == {2, 3, 4}

\* The settings and walks the interactive mode is loaded with.
LoadConfigs ==
  { cfg \in TraverseConfigs :
      ~cfg.show_hidden /\ cfg.max_file_size = DEFAULT_MAX_FILE_SIZE }
\* The walker is deterministic: it yields the entries of one directory in
\* one order, here that of WalkOrder.
WalkOrder == <<RootPath, PathA, PathSub, PathB, PathC>>
Position(path) == CHOOSE i \in 1..Len(WalkOrder) : WalkOrder[i] = path
LoadOrders ==
  { entries \in WalkOrders :
      /\ Len(entries) = MaxEntries + 1
      /\ \A i \in 1..(Len(entries) - 1) : Position(entries[i]) < Position(entries[i + 1]) }

\* App::new(tree) on the loaded tree (main.rs run_interactive_mode)
AppNew(overflow_checks) ==
  /\ last.op = "traverse"
  /\ app' = App_new(nodes, overflow_checks)
  /\ last' = [op |-> "App::new"]
  /\ UNCHANGED <<nodes, path_to_index>>

\* run_app is in its loop: the App is there, the process has not aborted
\* and run_app has returned neither an Err nor, after the frame that
\* follows a quit, through the break.
Running ==
  /\ app.mode # "None" /\ ~app.panicked /\ ~app.returned_err
  /\ ~(app.should_quit /\ last.op = "draw")

\* draw_ui: in Main mode draw_file_list stores the height of the list area
\* less its two border rows; the help screen and the file-save prompt store
\* nothing.
draw_ui(a, height) ==
  IF a.mode = "Main"
  THEN [a EXCEPT !.viewport_height = saturating_sub(height, 2)]
  ELSE a

\* terminal.draw at the head of a turn of the loop of run_app.  should_quit
\* is tested after it, so the turn that follows a quit draws one more frame.
Draw(height) ==
  /\ Running
  /\ app' = draw_ui(app, height)
  /\ last' = [op |-> "draw"]
  /\ UNCHANGED <<nodes, path_to_index>>

\* The key branch of the turn: a key is read after the frame was drawn and
\* should_quit was found false.  A typed character is taken while the query
\* is shorter than MaxQuery, or the path of the file-save prompt shorter
\* than MaxFileSaveInput.
KeyPress(key_event, found, outcome) ==
  /\ last.op = "draw" /\ ~app.should_quit
  /\ (app.mode # "Help" /\ handle_key_event_mode(key_event, app.mode) # None)
       => LET kind == Unwrap(handle_key_event_mode(key_event, app.mode)).kind
          IN  /\ kind = "SearchChar" => Len(app.search_query) < MaxQuery
              /\ kind = "FileSaveChar" => Len(app.file_save_input) < MaxFileSaveInput
  /\ \E after \in {on_key(app, nodes, key_event, found, outcome)} :
       /\ app' = after.app
       /\ nodes' = after.nodes
  /\ last' = [op |-> "key", key_event |-> key_event, mode |-> app.mode]
  /\ UNCHANGED path_to_index

\* The answers the matcher can give when the key press makes the App filter
\* again with a non-empty query; otherwise it is not run.
FoundAfter(key_event) ==
  LET action == handle_key_event_mode(key_event, app.mode)
      query  == query_after(app, action)
  IN  IF app.mode = "Main" /\ IsSome(action)
         /\ Unwrap(action).kind \in {"SearchChar", "SearchBackspace"}
         /\ query # <<>>
      THEN SearchRuns(node_texts(nodes), query, 1)
      ELSE {<<>>}

\* What handle_output can answer when the key is the export key, and what
\* save_file_from_dialog can when the key confirms the file-save prompt; on
\* any other key neither is called.
OutcomesAfter(key_event) ==
  LET action == handle_key_event_mode(key_event, app.mode)
  IN  IF action = Some(Action("Export", "")) THEN handle_output(nodes)
      ELSE IF action = Some(Action("FileSaveConfirm", "")) THEN save_file_from_dialog
      ELSE {"Continue"}

NextUI ==
  \/ \E cfg \in LoadConfigs, entries \in LoadOrders : Traverse(cfg, entries)
  \/ \E overflow_checks \in BOOLEAN : AppNew(overflow_checks)
  \/ \E height \in AreaHeights : Draw(height)
  \/ \E key_event \in KeyEvents :
       \E found \in FoundAfter(key_event), outcome \in OutcomesAfter(key_event) :
         KeyPress(key_event, found, outcome)

SpecUI == Init /\ [][NextUI]_vars

\* ---------------------------------------------- Settings (settings.rs)
\* Most settings a configuration file gives a value other than the default.
MaxSet == 2

default_max_file_size == DEFAULT_MAX_FILE_SIZE
default_max_clipboard_size == 2 * 1024 * 1024
default_respect_gitignore == TRUE
default_show_hidden == FALSE
default_include_metadata == TRUE
default_include_line_numbers == FALSE

default_text_extensions ==
  << "txt", "md", "rs", "py", "js", "ts", "jsx", "tsx", "html", "css",
     "scss", "sass", "json", "yaml", "yml", "toml", "xml", "csv", "sql",
     "sh", "bash", "zsh", "fish" >>

default_binary_extensions ==
  << "exe", "dll", "so", "dylib", "bin", "obj", "o", "a", "lib", "png",
     "jpg", "jpeg", "gif", "bmp", "ico", "svg", "pdf", "zip", "tar", "gz",
     "7z", "rar" >>

\* impl Default for Settings
Settings_default ==
  [ max_file_size        |-> default_max_file_size,
    max_clipboard_size   |-> default_max_clipboard_size,
    respect_gitignore    |-> default_respect_gitignore,
    show_hidden          |-> default_show_hidden,
    include_metadata     |-> default_include_metadata,
    include_line_numbers |-> default_include_line_numbers,
    default_output_dir   |-> None,
    file_extensions      |-> [ text_extensions   |-> default_text_extensions,
                               binary_extensions |-> default_binary_extensions ] ]

\* Settings::merge_settings
merge_settings(global, project) ==
  [ max_file_size |->
      IF project.max_file_size # default_max_file_size
      THEN project.max_file_size ELSE global.max_file_size,
    max_clipboard_size |->
      IF project.max_clipboard_size # default_max_clipboard_size
      THEN project.max_clipboard_size ELSE global.max_clipboard_size,
    respect_gitignore |->
      IF project.respect_gitignore # default_respect_gitignore
      THEN project.respect_gitignore ELSE global.respect_gitignore,
    show_hidden |->
      IF project.show_hidden # default_show_hidden
      THEN project.show_hidden ELSE global.show_hidden,
    include_metadata |->
      IF project.include_metadata # default_include_metadata
      THEN project.include_metadata ELSE global.include_metadata,
    include_line_numbers |->
      IF project.include_line_numbers # default_include_line_numbers
      THEN project.include_line_numbers ELSE global.include_line_numbers,
    default_output_dir |->
      IF IsSome(project.default_output_dir)
      THEN project.default_output_dir ELSE global.default_output_dir,
    file_extensions |->
      [ text_extensions |->
          IF project.file_extensions.text_extensions # default_text_extensions
          THEN project.file_extensions.text_extensions
          ELSE global.file_extensions.text_extensions,
        binary_extensions |->
          IF project.file_extensions.binary_extensions # default_binary_extensions
          THEN project.file_extensions.binary_extensions
          ELSE global.file_extensions.binary_extensions ] ]

\* Settings::load_with_project_root; global_file and project_file are what
\* load_from_file gives for the two paths, None when it fails.
load_with_project_root(global_file, project_file) ==
  LET settings == IF IsSome(global_file) THEN Unwrap(global_file)
                  ELSE Settings_default
  IN  IF IsSome(project_file)
      THEN merge_settings(settings, Unwrap(project_file))
      ELSE settings

\* The fields of Settings, those of file_extensions among them.
SettingNames ==
  { "max_file_size", "max_clipboard_size", "respect_gitignore", "show_hidden",
    "include_metadata", "include_line_numbers", "default_output_dir",
    "text_extensions", "binary_extensions" }

\* What toml::from_str gives for a file that sets the fields of given to a
\* value other than the default; serde fills the others with the defaults.
ParsedSettings(given) ==
  [ max_file_size        |-> IF "max_file_size" \in given THEN 1024
                             ELSE default_max_file_size,
    max_clipboard_size   |-> IF "max_clipboard_size" \in given THEN 4096
                             ELSE default_max_clipboard_size,
    respect_gitignore    |-> IF "respect_gitignore" \in given
                             THEN ~default_respect_gitignore
                             ELSE default_respect_gitignore,
    show_hidden          |-> IF "show_hidden" \in given THEN ~default_show_hidden
                             ELSE default_show_hidden,
    include_metadata     |-> IF "include_metadata" \in given
                             THEN ~default_include_metadata
                             ELSE default_include_metadata,
    include_line_numbers |-> IF "include_line_numbers" \in given
                             THEN ~default_include_line_numbers
                             ELSE default_include_line_numbers,
    default_output_dir   |-> IF "default_output_dir" \in given THEN Some("out")
                             ELSE None,
    file_extensions      |->
      [ text_extensions   |-> IF "text_extensions" \in given THEN <<"txt">>
                              ELSE default_text_extensions,
        binary_extensions |-> IF "binary_extensions" \in given THEN <<"bin">>
                              ELSE default_binary_extensions ] ]

\* What load_from_file can give: an error, or the settings of a file.
ConfigFiles ==
  {None} \cup { Some(ParsedSettings(given)) :
                  given \in { g \in SUBSET SettingNames : Cardinality(g) <= MaxSet } }

InitSettings ==
  /\ nodes = DirectoryTree_new(RootPath).nodes
  /\ path_to_index = DirectoryTree_new(RootPath).path_to_index
  /\ \E global_file \in ConfigFiles, project_file \in ConfigFiles :
       last = [op |-> "input", global_file |-> global_file,
               project_file |-> project_file]
  /\ app = NoApp

\* Settings::load_with_project_root(project_root)
LoadSettings ==
  /\ last.op = "input"
  /\ last' = [op |-> "load_with_project_root",
              global_file |-> last.global_file,
              project_file |-> last.project_file,
              ret |-> load_with_project_root(last.global_file, last.project_file)]
  /\ UNCHANGED <<nodes, path_to_index, app>>

NextSettings == LoadSettings

SpecSettings == InitSettings /\ [][NextSettings]_vars

\* ------------------------------------------------- structure of the arena
Indices(ns) == 0..(Len(ns) - 1)

\* The proper ancestors of node i, following FileNode.parent to the root.
RECURSIVE Ancestors(_, _)
Ancestors(ns, i) ==
  IF IsSome(ns[i + 1].parent)
  THEN {Unwrap(ns[i + 1].parent)} \cup Ancestors(ns, Unwrap(ns[i + 1].parent))
  ELSE {}

\* The proper descendants of node d, at every depth.
Descendants(ns, d) == {j \in Indices(ns) : d \in Ancestors(ns, j)}

\* The descendants of d that are files.
DescendantFiles(ns, d) == {j \in Descendants(ns, d) : ~ns[j + 1].is_directory}

\* The states held by the immediate children of node a.
ChildStates(ns, a) ==
  {ns[ns[a + 1].children[k] + 1].state : k \in 1..Len(ns[a + 1].children)}

\* The aggregation policy of the specification, on a set of child states.
Policy(S) ==
  IF Partial \in S \/ (Included \in S /\ Excluded \in S) THEN Partial
  ELSE IF Included \in S THEN Included
  ELSE Excluded

\* Every node of the tree holds state s.
Uniform(ns, s) == \A i \in Indices(ns) : ns[i + 1].state = s

\* Node f is a file whose parent has at least one other child.
FileWithSibling(ns, f) ==
  /\ ~ns[f + 1].is_directory
  /\ IsSome(ns[f + 1].parent)
  /\ Len(ns[Unwrap(ns[f + 1].parent) + 1].children) >= 2

\* The last call was `op` on a valid index.
LastOn(op) == last.op = op /\ last.index \in Indices(nodes)

\* ------------------------------------------------------------------ claims

\* C1: after any sequence of add_node, set_state and toggle_state calls every
\* directory is Included iff it has a descendant file and all its descendant
\* files are Included, Excluded iff none of its descendant files is Included,
\* and Partial otherwise.  The code breaks it: set_state on a directory
\* without files, set_state(_, Partial) and add_node under an Included
\* directory all leave a directory in a state its files do not justify.
C1_DirectoryStateFollowsFiles ==
  \A d \in Indices(nodes) :
    nodes[d + 1].is_directory =>
      LET F == DescendantFiles(nodes, d)
      IN  /\ (nodes[d + 1].state = Included) <=>
               (F # {} /\ \A f \in F : nodes[f + 1].state = Included)
          /\ (nodes[d + 1].state = Excluded) <=>
               (\A f \in F : nodes[f + 1].state # Included)

\* C2: no file node ever holds Partial, whatever state set_state is given.
\* The code breaks it: set_state writes the state it is given into any node.
C2_NoFileIsPartial ==
  \A i \in Indices(nodes) :
    ~nodes[i + 1].is_directory => nodes[i + 1].state \in {Included, Excluded}

\* C3: in a tree where every node holds the same state s (Included or
\* Excluded), toggling a file that has a sibling makes every ancestor of the
\* file up to the root Partial, and toggling the file once more gives every
\* ancestor state s again.
C3_ToggleFileRoundTrip ==
  [][ \A f \in Indices(nodes), s \in {Included, Excluded} :
        ( /\ Uniform(nodes, s)
          /\ FileWithSibling(nodes, f)
          /\ last'.op = "toggle_state" /\ last'.index = f )
        => /\ \A a \in Ancestors(nodes, f) : nodes'[a + 1].state = Partial
           /\ \A a \in Ancestors(nodes, f) :
                toggle_state(nodes', f)[a + 1].state = s ]_vars

\* A file two levels below the root has just been toggled out of a uniform
\* tree: it alone dissents, its ancestors are Partial and a second toggle
\* makes the tree uniform again.
C3_Witness ==
  /\ LastOn("toggle_state")
  /\ FileWithSibling(nodes, last.index)
  /\ Cardinality(Ancestors(nodes, last.index)) >= 2
  /\ \A a \in Ancestors(nodes, last.index) : nodes[a + 1].state = Partial
  /\ \A j \in Indices(nodes) \ (Ancestors(nodes, last.index) \cup {last.index}) :
       nodes[j + 1].state = Unwrap(last.old)
  /\ nodes[last.index + 1].state = toggle(Unwrap(last.old))
  /\ Uniform(toggle_state(nodes, last.index), Unwrap(last.old))

\* C4: right after set_state(d, s) on a directory d with s Included or
\* Excluded, every descendant of d at every depth holds s.
C4_SetStateForcesSubtree ==
  ( /\ LastOn("set_state")
    /\ last.state \in {Included, Excluded}
    /\ nodes[last.index + 1].is_directory )
  => \A j \in Descendants(nodes, last.index) : nodes[j + 1].state = last.state

\* set_state(d, Included) has acted on a directory with a grandchild.
C4_Witness ==
  /\ LastOn("set_state")
  /\ last.state = Included
  /\ nodes[last.index + 1].is_directory
  /\ \E j \in Descendants(nodes, last.index) :
       nodes[j + 1].parent # Some(last.index)

\* C5: right after set_state(i, s) on a valid index, every proper ancestor of
\* i up to the root holds the aggregation policy of its immediate children:
\* Partial if a child is Partial or the children mix Included and Excluded,
\* else Included if a child is Included, else Excluded.
C5_AncestorsAggregateChildren ==
  LastOn("set_state")
  => \A a \in Ancestors(nodes, last.index) :
       nodes[a + 1].state = Policy(ChildStates(nodes, a))

\* set_state has acted two levels below the root and left the root Partial
\* over children that are not all alike.
C5_Witness ==
  /\ LastOn("set_state")
  /\ Cardinality(Ancestors(nodes, last.index)) >= 2
  /\ nodes[root_index + 1].state = Partial
  /\ Cardinality(ChildStates(nodes, root_index)) >= 2

\* C6: set_state is idempotent: once set_state(n, s) has returned, calling
\* set_state(n, s) again leaves every node and all structure as they are.
C6_SetStateIdempotent ==
  last.op = "set_state" => set_state(nodes, last.index, last.state) = nodes

\* set_state(n, Included) has acted on a directory that has both a parent
\* and children, and its parent came out Partial.
C6_Witness ==
  /\ LastOn("set_state")
  /\ last.state = Included
  /\ nodes[last.index + 1].children # <<>>
  /\ IsSome(nodes[last.index + 1].parent)
  /\ nodes[Unwrap(nodes[last.index + 1].parent) + 1].state = Partial

\* C7: right after toggle_state(i) on a valid index, node i is Excluded if it
\* was Included before the call and Included if it was Excluded or Partial;
\* it is never Partial.
C7_ToggleResult ==
  LastOn("toggle_state")
  => /\ nodes[last.index + 1].state =
          (IF Unwrap(last.old) = Included THEN Excluded ELSE Included)
     /\ nodes[last.index + 1].state # Partial

\* A Partial directory with children has just been toggled.
C7_Witness ==
  /\ LastOn("toggle_state")
  /\ last.old = Some(Partial)
  /\ nodes[last.index + 1].children # <<>>

\* C8: set_state(d, Partial) does not propagate downward: every node other
\* than d and the ancestors of d, so every descendant of d, holds the state
\* it held before the call, and nothing but state fields changes.
C8_PartialNotPropagated ==
  [][ \A d \in Indices(nodes) :
        (last'.op = "set_state" /\ last'.index = d /\ last'.state = Partial)
        => /\ Len(nodes') = Len(nodes)
           /\ \A j \in Indices(nodes) \ ({d} \cup Ancestors(nodes, d)) :
                nodes'[j + 1] = nodes[j + 1]
           /\ \A j \in Indices(nodes) :
                [nodes'[j + 1] EXCEPT !.state = nodes[j + 1].state] = nodes[j + 1]
           /\ path_to_index' = path_to_index ]_vars

\* set_state(d, Partial) has acted on a directory whose descendants, down to
\* a grandchild, are all still Included.
C8_Witness ==
  /\ LastOn("set_state")
  /\ last.state = Partial
  /\ nodes[last.index + 1].state = Partial
  /\ \E j \in Descendants(nodes, last.index) :
       nodes[j + 1].parent # Some(last.index)
  /\ \A j \in Descendants(nodes, last.index) : nodes[j + 1].state = Included

\* C9: get_all_included_files returns exactly the nodes that are files, are
\* text files and hold Included.  The code breaks it: is_included() accepts
\* Partial, so a text file that C2's defect left Partial is returned too.
C9_ReturnsExactlyIncludedTextFiles ==
  last.op = "get_all_included_files"
  => {last.ret[k] : k \in 1..Len(last.ret)} =
       {i \in Indices(nodes) :
          /\ ~nodes[i + 1].is_directory
          /\ nodes[i + 1].is_text_file
          /\ nodes[i + 1].state = Included}

\* The child positions on the way from the root down to node i.
RECURSIVE PositionPath(_, _)
PositionPath(ns, i) ==
  IF IsSome(ns[i + 1].parent)
  THEN LET p == Unwrap(ns[i + 1].parent)
       IN  PositionPath(ns, p) \o
             <<CHOOSE k \in 1..Len(ns[p + 1].children) : ns[p + 1].children[k] = i>>
  ELSE <<>>

\* Node x comes before node y in pre-order: x is an ancestor of y, or
\* where their ways from the root part x's branch was inserted first.
PreOrderBefore(ns, x, y) ==
  LET p == PositionPath(ns, x)
      q == PositionPath(ns, y)
  IN  \/ Len(p) < Len(q) /\ SubSeq(q, 1, Len(p)) = p
      \/ \E k \in 1..Min(Len(p), Len(q)) :
           /\ SubSeq(p, 1, k - 1) = SubSeq(q, 1, k - 1)
           /\ p[k] < q[k]

\* C10: the sequence get_all_included_files returns is in pre-order
\* depth-first order from the root over children in insertion order, and
\* every Included text file occurs in it exactly once.
C10_PreOrderEachOnce ==
  last.op = "get_all_included_files"
  => /\ \A a, b \in 1..Len(last.ret) :
          a < b => PreOrderBefore(nodes, last.ret[a], last.ret[b])
     /\ \A i \in Indices(nodes) :
          ( /\ ~nodes[i + 1].is_directory
            /\ nodes[i + 1].is_text_file
            /\ nodes[i + 1].state = Included )
          => Cardinality({k \in 1..Len(last.ret) : last.ret[k] = i}) = 1

\* The query returned two files whose pre-order is not their arena order.
C10_Witness ==
  /\ last.op = "get_all_included_files"
  /\ Len(last.ret) = 2
  /\ last.ret[1] > last.ret[2]
  /\ \A k \in 1..2 : nodes[last.ret[k] + 1].state = Included
\* The node reached from node i by following FileNode.parent k times, None
\* once the chain has ended.
RECURSIVE ParentAfter(_, _, _)
ParentAfter(ns, i, k) ==
  IF k = 0 THEN Some(i)
  ELSE IF IsSome(ns[i + 1].parent) /\ Unwrap(ns[i + 1].parent) \in Indices(ns)
       THEN ParentAfter(ns, Unwrap(ns[i + 1].parent), k - 1)
       ELSE None

\* How often index i occurs in the child lists of the whole arena.
ChildOccurrences(ns, i) ==
  Cardinality({<<p, k>> \in Indices(ns) \X (1..Len(ns)) :
                 k <= Len(ns[p + 1].children) /\ ns[p + 1].children[k] = i})

\* C11: after any sequence of add_node, set_state and toggle_state calls the
\* arena is a tree: the parent links are acyclic, the root is the only node
\* without a parent, every other node occurs exactly once in exactly one
\* child list, and every index in a child list names a node whose parent
\* field is the owner of the list.
C11_ArenaIsTree ==
  /\ \A i \in Indices(nodes) : ParentAfter(nodes, i, Len(nodes)) = None
  /\ \A i \in Indices(nodes) : (nodes[i + 1].parent = None) <=> (i = root_index)
  /\ \A i \in Indices(nodes) \ {root_index} : ChildOccurrences(nodes, i) = 1
  /\ \A p \in Indices(nodes) :
       \A k \in 1..Len(nodes[p + 1].children) :
         /\ nodes[p + 1].children[k] \in Indices(nodes)
         /\ nodes[nodes[p + 1].children[k] + 1].parent = Some(p)

\* A repeated add_node has just returned an old index in a full arena that
\* is two levels deep.
C11_Witness ==
  /\ last.op = "add_node"
  /\ IsSome(last.ret) /\ Unwrap(last.ret) < Len(nodes) - 1
  /\ Len(nodes) = MaxNodes
  /\ \E i \in Indices(nodes) : Cardinality(Ancestors(nodes, i)) >= 2

\* C12: add_node for a path that is already in the tree returns the index
\* the path has and changes nothing, whatever is_directory and parent_path
\* are passed: no node appended, no child list extended, path map unchanged.
\* Stated of add_node on every tree the program reaches; AddNode installs
\* exactly this result.
C12_ReinsertionChangesNothing ==
  \A path \in DOMAIN path_to_index, is_directory \in BOOLEAN, parent_path \in Paths :
    LET r == add_node(nodes, path_to_index, path, is_directory, parent_path)
    IN  /\ r.nodes = nodes
        /\ r.path_to_index = path_to_index
        /\ r.ret = Some(path_to_index[path])

\* add_node has returned the index of a directory that was inserted
\* earlier and has children.
C12_Witness ==
  /\ last.op = "add_node"
  /\ IsSome(last.ret) /\ Unwrap(last.ret) < Len(nodes) - 1
  /\ Unwrap(last.ret) # root_index
  /\ nodes[Unwrap(last.ret) + 1].children # <<>>

\* C13: add_node for a new path whose parent_path is not in the path map
\* returns None and leaves the tree unchanged: node count, child lists and
\* path map are as before the call.
\* Stated of add_node on every tree the program reaches, for every unknown
\* parent_path.
C13_UnknownParentChangesNothing ==
  \A path \in Paths \ DOMAIN path_to_index, is_directory \in BOOLEAN,
     parent_path \in Paths \ DOMAIN path_to_index :
    LET r == add_node(nodes, path_to_index, path, is_directory, parent_path)
    IN  /\ r.nodes = nodes
        /\ r.path_to_index = path_to_index
        /\ r.ret = None

\* add_node has returned None on a tree that already holds other nodes.
C13_Witness ==
  /\ last.op = "add_node"
  /\ last.ret = None
  /\ Len(nodes) >= 2
  /\ PathSub \notin DOMAIN path_to_index

\* C14: for an index that is no arena index get_node returns None, and
\* set_state and toggle_state leave every node and the path map as they are.
C14_InvalidIndexChangesNothing ==
  [][ ( /\ last'.op \in {"set_state", "toggle_state"}
        /\ last'.index >= Len(nodes) )
      => /\ get_node(nodes, last'.index) = None
         /\ nodes' = nodes
         /\ path_to_index' = path_to_index ]_vars

\* set_state(len, Included) has been called on an arena of at least three
\* nodes that are not all Included.
C14_Witness ==
  /\ last.op = "set_state"
  /\ last.index >= Len(nodes)
  /\ last.state = Included
  /\ Len(nodes) >= 3
  /\ \E i \in Indices(nodes) : nodes[i + 1].state = Excluded
\* The arena indices of the searchable nodes: directories and text files.
Searchable(ns) ==
  { i \in Indices(ns) : ns[i + 1].is_directory \/ ns[i + 1].is_text_file }

\* C15: filter_tree_nodes with the empty query returns exactly the
\* searchable nodes (all directories and all text files, no other node), in
\* increasing arena-index order, each with score 0 and no match positions.
C15_EmptyQueryKeepsSearchable ==
  (last.op = "filter_tree_nodes" /\ last.query = <<>>)
  => /\ Len(last.ret.matches) = Len(last.ret.visible_items)
     /\ { last.ret.visible_items[k] : k \in 1..Len(last.ret.visible_items) }
          = Searchable(nodes)
     /\ \A k, l \in 1..Len(last.ret.visible_items) :
          k < l => last.ret.visible_items[k] < last.ret.visible_items[l]
     /\ \A k \in 1..Len(last.ret.matches) :
          /\ last.ret.matches[k].score = 0
          /\ last.ret.matches[k].indices = <<>>

\* The empty query has been run on a tree with the binary file b.bin and the
\* text file a.txt: a.txt is visible, b.bin is not.
C15_Witness ==
  /\ last.op = "filter_tree_nodes" /\ last.query = <<>>
  /\ PathA \in DOMAIN path_to_index /\ PathB \in DOMAIN path_to_index
  /\ \E k \in 1..Len(last.ret.visible_items) :
       last.ret.visible_items[k] = path_to_index[PathA]
  /\ \A k \in 1..Len(last.ret.visible_items) :
       last.ret.visible_items[k] # path_to_index[PathB]

\* C16: for a non-empty query the result holds exactly the candidates the
\* matcher matched, each once with the matcher's score, ordered by
\* non-increasing score, and two results of equal score are in their
\* original (arena) order.
C16_MatchedSortedStable ==
  (last.op = "filter_tree_nodes" /\ last.query # <<>>)
  => LET matches == last.ret.matches
         visible == last.ret.visible_items
     IN  /\ { matches[k].item_index : k \in 1..Len(matches) }
              = { i - 1 : i \in { i \in 1..Len(last.found) : IsSome(last.found[i]) } }
         /\ \A k \in 1..Len(matches) :
              matches[k].score = Unwrap(last.found[matches[k].item_index + 1]).score
         /\ \A k, l \in 1..Len(matches) :
              k < l => /\ matches[k].score >= matches[l].score
                       /\ matches[k].item_index # matches[l].item_index
                       /\ matches[k].score = matches[l].score
                            => /\ matches[k].item_index < matches[l].item_index
                               /\ visible[k] < visible[l]

\* A non-empty query has matched two candidates with the same score and
\* dropped a third.
C16_Witness ==
  /\ last.op = "filter_tree_nodes" /\ last.query # <<>>
  /\ Len(last.ret.matches) = 2
  /\ last.ret.matches[1].score = last.ret.matches[2].score
  /\ \E i \in 1..Len(last.found) : ~IsSome(last.found[i])

\* The path of node i relative to the root, as apply_patterns matches it.
RelativePath(ns, i) ==
  IF IsSome(strip_prefix(ns[i + 1].path, ns[root_index + 1].path))
  THEN Unwrap(strip_prefix(ns[i + 1].path, ns[root_index + 1].path))
  ELSE ns[i + 1].path

\* Node i matches one of the patterns by relative path or by name.
NodeMatches(ns, i, patterns) ==
  \E k \in 1..Len(patterns) :
    \/ path_matches_pattern(RelativePath(ns, i), patterns[k])
    \/ path_matches_pattern(ns[i + 1].name, patterns[k])

\* C17: after apply_patterns every node, file or directory, that matches an
\* exclude pattern by relative path or name is Excluded, whether or not it
\* matches an include pattern.  The code breaks it for directories: a
\* directory set Excluded is re-aggregated when a later child that matches
\* no exclude pattern is set Included.
C17_ExcludedNodesStayExcluded ==
  last.op = "apply_patterns"
  => \A i \in Indices(nodes) :
       NodeMatches(nodes, i, last.exclude) => nodes[i + 1].state = Excluded

BinSuffix == <<".", "b", "i", "n">>

\* C18 as stated: after apply_patterns with no include pattern and the one
\* exclude pattern "*.bin", every node whose path does not end in ".bin",
\* directories and root included, is Included and every node whose path ends
\* in ".bin" is Excluded.
C18_EveryOtherNodeIncluded ==
  (last.op = "apply_patterns" /\ last.include = <<>> /\ last.exclude = <<PatBin>>)
  => \A i \in Indices(nodes) :
       nodes[i + 1].state =
         (IF ends_with(nodes[i + 1].path, BinSuffix) THEN Excluded ELSE Included)

\* C18 as amended: after apply_patterns with no include pattern and the one
\* exclude pattern "*.bin", every file whose path ends in ".bin" is Excluded
\* and every other file is Included; a directory that has children holds the
\* aggregate of its children (Partial above files of both kinds), and a
\* directory without children is Included unless its path ends in ".bin".
C18_FilesFollowBinPattern ==
  (last.op = "apply_patterns" /\ last.include = <<>> /\ last.exclude = <<PatBin>>)
  => \A i \in Indices(nodes) :
       nodes[i + 1].state =
         (IF nodes[i + 1].children # <<>>
          THEN Policy(ChildStates(nodes, i))
          ELSE IF ends_with(nodes[i + 1].path, BinSuffix) THEN Excluded
          ELSE Included)

\* "*.bin" alone has been applied to a tree that holds b.bin and c.txt under
\* sub: the files follow the pattern, sub and the root are Partial.
C18_Witness ==
  /\ last.op = "apply_patterns" /\ last.include = <<>> /\ last.exclude = <<PatBin>>
  /\ PathB \in DOMAIN path_to_index /\ PathC \in DOMAIN path_to_index
  /\ nodes[path_to_index[PathB] + 1].state = Excluded
  /\ nodes[path_to_index[PathC] + 1].state = Included
  /\ nodes[path_to_index[PathSub] + 1].state = Partial
  /\ nodes[root_index + 1].state = Partial

\* A string without glob characters.
IsLiteral(s) == \A i \in 1..Len(s) : s[i] \notin {"*", "?"}

\* C19: path_matches_pattern is true for "**/*" on every path, and for "*"
\* followed by a literal suffix it is true exactly for the paths that end
\* with the suffix, at any depth.
C19_MatchAllAndSuffix ==
  last.op = "path_matches_pattern"
  => /\ last.pattern = ExPatAll => last.ret
     /\ ( /\ starts_with(last.pattern, <<"*">>)
          /\ IsLiteral(SubSeq(last.pattern, 2, Len(last.pattern))) )
        => (last.ret <=>
              ends_with(last.path, SubSeq(last.pattern, 2, Len(last.pattern))))

\* "*.rs" has been matched against "src/main.rs" and matched.
C19_Witness ==
  /\ last.op = "path_matches_pattern"
  /\ last.pattern = ExPatRs
  /\ last.path = ExSrcMainRs
  /\ last.ret

\* The glob a pattern denotes in the specification: "**" any sequence, "*"
\* any sequence without separator, "?" one character, anything else itself.
RECURSIVE GlobMatch(_, _, _, _)
GlobMatch(pattern, k, text, j) ==
  IF k > Len(pattern) THEN j > Len(text)
  ELSE IF pattern[k] = "*" /\ k < Len(pattern) /\ pattern[k + 1] = "*"
  THEN \E n \in j..(Len(text) + 1) : GlobMatch(pattern, k + 2, text, n)
  ELSE IF pattern[k] = "*"
  THEN \E n \in j..(Len(text) + 1) :
         /\ \A m \in j..(n - 1) : text[m] # "/"
         /\ GlobMatch(pattern, k + 1, text, n)
  ELSE /\ j <= Len(text)
       /\ (pattern[k] = "?" \/ pattern[k] = text[j])
       /\ GlobMatch(pattern, k + 1, text, j + 1)

\* C20: for a pattern that neither starts nor ends with "*", "**" matches
\* any sequence of characters, separators included, and a single "*" any
\* sequence without separator ("src/**/main.rs" matches "src/a/b/main.rs").
\* The code breaks it: the replace of "*" also rewrites the "*" of the ".*"
\* that "**" was turned into, so "**" matches one character and then a run
\* without separator.
C20_DoubleStarCrossesSeparators ==
  ( /\ last.op = "path_matches_pattern"
    /\ ~starts_with(last.pattern, <<"*">>)
    /\ ~ends_with(last.pattern, <<"*">>)
    /\ regex_new_is_ok(regex_pattern(last.pattern)) )
  => (last.ret <=> GlobMatch(last.pattern, 1, last.path, 1))
\* C21 as stated: the classifier run at insertion classifies every empty
\* file as not text, whatever its name or extension.
C21_EmptyFileNeverText ==
  last.op = "insert_file"
  => \A i \in Indices(nodes) :
       (~nodes[i + 1].is_directory /\ Disk(nodes[i + 1].path) = [kind |-> "file", bytes |-> <<>>])
       => ~nodes[i + 1].is_text_file

\* C21 as amended: the classifier run at insertion classifies an empty file
\* as not text unless its extension or extensionless name is on the
\* allow-list, in which case it is text without its content being read.
C21_EmptyFileTextOnlyByName ==
  last.op = "insert_file"
  => \A i \in Indices(nodes) :
       (~nodes[i + 1].is_directory /\ Disk(nodes[i + 1].path) = [kind |-> "file", bytes |-> <<>>])
       => (nodes[i + 1].is_text_file <=> is_text_by_extension(nodes[i + 1].path))

\* The empty file e.dat, whose extension is unknown, has been inserted and
\* is not text.
C21_Witness ==
  /\ last.op = "insert_file"
  /\ PathEmptyDat \in DOMAIN path_to_index
  /\ ~nodes[path_to_index[PathEmptyDat] + 1].is_text_file

\* Byte b is printable ASCII or tab, LF, CR.
PlainText(b) == (b >= 32 /\ b <= 126) \/ b \in {9, 10, 13}

\* A complete valid multi-byte sequence starts at position j of the buffer.
SequenceAt(buffer, j) ==
  /\ buffer[j] >= 128
  /\ IsSome(get_utf8_char_length(buffer[j]))
  /\ j + Unwrap(get_utf8_char_length(buffer[j])) - 1 <= Len(buffer)
  /\ from_utf8_is_ok(SubSeq(buffer, j, j + Unwrap(get_utf8_char_length(buffer[j])) - 1))

\* Positions counted when a multi-byte sequence counts once, at its lead.
LeadCounted(buffer) ==
  { j \in 1..Len(buffer) : PlainText(buffer[j]) \/ SequenceAt(buffer, j) }

\* Positions counted when every byte of a multi-byte sequence counts.
AllCounted(buffer) ==
  { j \in 1..Len(buffer) :
      \/ PlainText(buffer[j])
      \/ \E s \in 1..j : SequenceAt(buffer, s)
                         /\ j < s + Unwrap(get_utf8_char_length(buffer[s])) }

\* The sample of a claim about the ratio: non-empty, at most SAMPLE_SIZE
\* bytes, no NUL byte.
RatioSample(buffer) ==
  /\ buffer # <<>> /\ Len(buffer) <= SAMPLE_SIZE
  /\ \A j \in 1..Len(buffer) : buffer[j] # 0

\* C22 as stated: on a non-empty sample without NUL is_likely_text is true
\* iff at least 95% of the bytes are counted, a complete valid multi-byte
\* sequence counting once, for its leading byte.
C22_RatioCountsLeadBytes ==
  (last.op = "is_likely_text" /\ RatioSample(last.buffer))
  => (last.ret <=> 20 * Cardinality(LeadCounted(last.buffer)) >= 19 * Len(last.buffer))

\* C22 as amended: on a non-empty sample without NUL is_likely_text is true
\* iff at least 95% of the bytes are counted, the counted bytes being
\* printable ASCII, tab, CR, LF and every byte of each complete valid
\* multi-byte sequence that lies within the sample.
C22_RatioCountsSequenceBytes ==
  (last.op = "is_likely_text" /\ RatioSample(last.buffer))
  => (last.ret <=> 20 * Cardinality(AllCounted(last.buffer)) >= 19 * Len(last.buffer))

\* A sample of twenty bytes with a two-byte sequence and one control byte
\* has been judged text: nineteen of twenty bytes count, exactly 95%.
C22_Witness ==
  /\ last.op = "is_likely_text" /\ last.ret
  /\ Len(last.buffer) = 20
  /\ \E j \in 1..19 : SequenceAt(last.buffer, j) /\ get_utf8_char_length(last.buffer[j]) = Some(2)
  /\ \E j \in 1..20 : last.buffer[j] = 1
\* The Escape key pressed in Main mode is what the last turn handled.
EscapeInMain ==
  /\ last.op = "key"
  /\ last.mode = "Main"
  /\ last.key_event = Key("Esc", "", NONE)

\* C23: in Main mode an Escape key press with a non-empty search query
\* clears the query, recomputes the filtered view and does not quit; with an
\* empty search query it sets should_quit.  In both cases no node's
\* selection state changes.  The code breaks it through the defect of C35:
\* with viewport_height 0 in a build with overflow checks the update_scroll
\* that ends the recomputation aborts the process.
C23_EscapeClearsThenQuits ==
  [][ EscapeInMain' =>
        /\ ~app'.panicked
        /\ Len(nodes') = Len(nodes)
        /\ \A i \in Indices(nodes) : nodes'[i + 1].state = nodes[i + 1].state
        /\ IF app.search_query # <<>>
           THEN /\ app'.search_query = <<>>
                /\ app'.filtered_results = filter_tree_nodes(nodes, <<>>, <<>>)
                /\ ~app'.should_quit
           ELSE app'.should_quit ]_vars

\* C24: every character key press that is not a Ctrl combination, with or
\* without Shift, is mapped by handle_key_event to SearchChar(c) and appended
\* to the search query.  The code breaks it: the Char arm asks for no
\* modifier at all, so a character typed with Shift or Alt maps to no action.
C24_EveryCharacterIsSearched ==
  [][ ( /\ last'.op = "key"
        /\ last'.mode = "Main"
        /\ last'.key_event.code = "Char"
        /\ CONTROL \notin last'.key_event.modifiers )
      => /\ handle_key_event(last'.key_event)
              = Some(Action("SearchChar", last'.key_event.c))
         /\ app'.search_query = Append(app.search_query, last'.key_event.c) ]_vars

\* C25: on a tree built by the traverser, after any sequence of toggle_state
\* calls and set_state calls with Included or Excluded (the loop of
\* apply_patterns included), every node with at least one child holds the
\* aggregation of its immediate children's states.
C25_ParentsAggregateChildren ==
  last.op # "new"
  => \A i \in Indices(nodes) :
       nodes[i + 1].children # <<>>
       => nodes[i + 1].state = Policy(ChildStates(nodes, i))

\* toggle_state has left a directory Partial above an Included and an
\* Excluded child, and the root Partial above it.
C25_Witness ==
  /\ last.op = "toggle_state"
  /\ PathSub \in DOMAIN path_to_index
  /\ nodes[path_to_index[PathSub] + 1].state = Partial
  /\ ChildStates(nodes, path_to_index[PathSub]) = {Included, Excluded}
  /\ nodes[root_index + 1].state = Partial

\* Every directory has a child and every leaf is a file.
NoEmptyDirectory(ns) ==
  \A i \in Indices(ns) : ns[i + 1].is_directory <=> ns[i + 1].children # <<>>

\* C26: on a loaded tree in which every directory has a child and only files
\* are leaves, after any sequence of toggle_state calls and set_state calls
\* with Included or Excluded, every directory is Included iff all its
\* descendant files are Included, Excluded iff none is, Partial otherwise.
C26_DirectoriesFollowFiles ==
  (last.op # "new" /\ NoEmptyDirectory(nodes))
  => \A d \in Indices(nodes) :
       nodes[d + 1].is_directory
       => LET F == DescendantFiles(nodes, d)
              I == {f \in F : nodes[f + 1].state = Included}
          IN  nodes[d + 1].state =
                (IF I = F THEN Included ELSE IF I = {} THEN Excluded ELSE Partial)

\* set_state has excluded one of two files of sub in a tree without empty
\* directory: sub and the root are Partial.
C26_Witness ==
  /\ last.op = "set_state" /\ last.state = Excluded
  /\ NoEmptyDirectory(nodes)
  /\ PathSub \in DOMAIN path_to_index
  /\ Cardinality(DescendantFiles(nodes, path_to_index[PathSub])) = 2
  /\ nodes[path_to_index[PathSub] + 1].state = Partial
  /\ nodes[root_index + 1].state = Partial

\* C27: set_state(i, s) and toggle_state(i) change nothing but the state
\* field of node i, of its descendants and of its ancestors: every other
\* node keeps its state, every node keeps its other fields, and the node
\* count and the path map stay as they are.
C27_OnlyStatesOnThePathChange ==
  [][ last'.op \in {"set_state", "toggle_state"}
      => /\ Len(nodes') = Len(nodes)
         /\ path_to_index' = path_to_index
         /\ \A j \in Indices(nodes) :
              /\ nodes'[j + 1] = [nodes[j + 1] EXCEPT !.state = nodes'[j + 1].state]
              /\ nodes'[j + 1].state # nodes[j + 1].state
                   => /\ last'.index \in Indices(nodes)
                      /\ \/ j = last'.index
                         \/ j \in Descendants(nodes, last'.index)
                         \/ j \in Ancestors(nodes, last'.index) ]_vars

\* set_state on a file has changed it and its parent while a sibling
\* subtree with another state was left alone.
C27_Witness ==
  /\ last.op = "set_state" /\ last.index \in Indices(nodes)
  /\ ~nodes[last.index + 1].is_directory
  /\ nodes[last.index + 1].state = Included
  /\ \E j \in Indices(nodes) \ {root_index} :
       /\ j # last.index
       /\ j \notin Ancestors(nodes, last.index)
       /\ nodes[j + 1].state = Excluded

\* The decision apply_patterns takes for node i on its own.
PatternDecision(ns, i, include, exclude) ==
  IF (include = <<>> \/ NodeMatches(ns, i, include)) /\ ~NodeMatches(ns, i, exclude)
  THEN Included ELSE Excluded

\* C28: after apply_patterns on a loaded tree every file holds its own
\* pattern decision: Included iff the include list is empty or the file
\* matches an include pattern, and it matches no exclude pattern.  The
\* decisions of its ancestors and of later nodes do not overwrite it.
C28_FilesHoldOwnDecision ==
  last.op = "apply_patterns"
  => \A i \in Indices(nodes) :
       ~nodes[i + 1].is_directory
       => nodes[i + 1].state = PatternDecision(nodes, i, last.include, last.exclude)

\* apply_patterns has included c.txt below the directory sub, which itself
\* matched the exclude pattern "sub".
C28_Witness ==
  /\ last.op = "apply_patterns"
  /\ last.exclude = <<PatSub>>
  /\ PathC \in DOMAIN path_to_index
  /\ nodes[path_to_index[PathC] + 1].state = Included
  /\ PatternDecision(nodes, path_to_index[PathSub], last.include, last.exclude) = Excluded

\* C29: a successful add_node (new path, known parent) appends one node at
\* the index equal to the previous node count, with the parent's index as
\* parent, no children and state Excluded; it appends the index to the end
\* of the parent's children, maps the path to it, and leaves every existing
\* node otherwise as it was.  Stated of add_node on every tree the program
\* reaches.
C29_InsertionAppendsOneNode ==
  \A path \in Paths \ DOMAIN path_to_index, is_directory \in BOOLEAN,
     parent_path \in DOMAIN path_to_index :
    LET r == add_node(nodes, path_to_index, path, is_directory, parent_path)
        n == Len(nodes)
        p == path_to_index[parent_path]
    IN  /\ r.ret = Some(n)
        /\ Len(r.nodes) = n + 1
        /\ r.nodes[n + 1].path = path
        /\ r.nodes[n + 1].parent = Some(p)
        /\ r.nodes[n + 1].children = <<>>
        /\ r.nodes[n + 1].state = Excluded
        /\ r.nodes[n + 1].is_directory = is_directory
        /\ r.nodes[p + 1] = [nodes[p + 1] EXCEPT !.children = Append(nodes[p + 1].children, n)]
        /\ \A j \in Indices(nodes) \ {p} : r.nodes[j + 1] = nodes[j + 1]
        /\ DOMAIN r.path_to_index = DOMAIN path_to_index \cup {path}
        /\ r.path_to_index[path] = n
        /\ \A q \in DOMAIN path_to_index : r.path_to_index[q] = path_to_index[q]

\* add_node has appended a second child to a directory that is not the
\* root.
C29_Witness ==
  /\ last.op = "add_node"
  /\ last.ret = Some(Len(nodes) - 1)
  /\ IsSome(nodes[Len(nodes)].parent)
  /\ nodes[Len(nodes)].parent # Some(root_index)
  /\ Len(nodes[Unwrap(nodes[Len(nodes)].parent) + 1].children) = 2

\* C30: with parents inserted before their children, add_node never
\* attaches a child to a node that is no directory: every node with children
\* is a directory, and is_text_file is false for every directory.  The code
\* breaks the first half: add_node does not look at the parent's
\* is_directory.
C30_OnlyDirectoriesHaveChildren ==
  \A i \in Indices(nodes) :
    /\ nodes[i + 1].children # <<>> => nodes[i + 1].is_directory
    /\ nodes[i + 1].is_directory => ~nodes[i + 1].is_text_file

\* C31: when traverse returns, every node of the tree (root, directories and
\* files, whatever the order in which the entries were inserted) holds the
\* same state: Included if include_all is true, Excluded otherwise; no node
\* is Partial.
C31_TraverseLeavesOneState ==
  last.op = "traverse" =>
    Uniform(nodes, IF last.include_all THEN Included ELSE Excluded)

\* traverse has returned an Included tree holding a directory with two
\* children, from entries that named a file before its directory.
C31_Witness ==
  /\ last.op = "traverse"
  /\ last.include_all
  /\ \E d \in Indices(nodes) : Len(nodes[d + 1].children) >= 2
  /\ \E i, j \in 1..Len(last.entries) :
       /\ i < j
       /\ last.entries[j] # RootPath
       /\ last.entries[j] = parent_or_root(last.entries[i], RootPath)

\* C32: for every query, empty or not, and every tree, no file with
\* is_text_file = false appears in the visible_items of filter_tree_nodes;
\* visible_items and matches have the same length, and every entry of
\* visible_items is a valid arena index that occurs at most once.
C32_VisibleItemsAreSearchableOnce ==
  last.op = "filter_tree_nodes" =>
    LET visible_items == last.ret.visible_items
    IN  /\ Len(visible_items) = Len(last.ret.matches)
        /\ \A k \in 1..Len(visible_items) :
             /\ visible_items[k] \in Indices(nodes)
             /\ nodes[visible_items[k] + 1].is_directory
                  \/ nodes[visible_items[k] + 1].is_text_file
        /\ \A k, l \in 1..Len(visible_items) :
             k # l => visible_items[k] # visible_items[l]

\* A non-empty query has matched a node that comes after the binary file
\* b.bin in the arena.
C32_Witness ==
  /\ last.op = "filter_tree_nodes" /\ last.query # <<>>
  /\ PathB \in DOMAIN path_to_index
  /\ \E k \in 1..Len(last.ret.visible_items) :
       last.ret.visible_items[k] > path_to_index[PathB]

\* The actions that edit the search query or move the cursor.
EditOrMove ==
  {"SearchChar", "SearchBackspace", "Escape", "MoveUp", "MoveDown",
   "PageUp", "PageDown", "MoveToTop", "MoveToBottom"}

\* The last turn handled a key in Main mode that maps to an action of kinds.
HandledIn(kinds) ==
  /\ last.op = "key"
  /\ last.mode = "Main"
  /\ IsSome(handle_key_event(last.key_event))
  /\ Unwrap(handle_key_event(last.key_event)).kind \in kinds

\* C33: editing the search query (add_search_char, search_backspace, Escape
\* clearing the query) and moving the cursor (move_up, move_down, page_up,
\* page_down, move_to_top, move_to_bottom) never change the state of any tree
\* node; only toggle_selection mutates the tree.
C33_EditsAndMovesKeepTheTree ==
  [][ /\ HandledIn(EditOrMove)' => nodes' = nodes
      /\ nodes' # nodes => \/ HandledIn({"ToggleSelection"})'
                           \/ last'.op = "traverse" ]_vars

\* A character has been typed after a toggle left the root Partial, and the
\* filtered list got shorter than the tree.
C33_Witness ==
  /\ HandledIn({"SearchChar"})
  /\ nodes[root_index + 1].state = Partial
  /\ app.search_query # <<>>
  /\ Len(app.filtered_results.visible_items) \in 1..(Len(nodes) - 2)

\* C34: after any sequence of UI actions (search edits, cursor moves, page
\* moves, toggles, Escape), whenever the filtered result list is non-empty the
\* cursor satisfies selected_index < filtered_results.len(), so
\* toggle_selection acts on the tree node shown under the cursor; when the
\* list is empty toggle_selection changes nothing.
C34_CursorStaysOnTheList ==
  [][ app'.mode # "None" =>
        /\ app'.filtered_results.matches # <<>> =>
             app'.selected_index < Len(app'.filtered_results.matches)
        /\ HandledIn({"ToggleSelection"})' =>
             nodes' = IF app.filtered_results.visible_items # <<>>
                      THEN toggle_state(nodes,
                             app.filtered_results.visible_items[app.selected_index + 1])
                      ELSE nodes ]_vars

\* Enter has included the node under the cursor, on a row below the first of
\* a filtered list whose rows are not the arena indices.
C34_Witness ==
  /\ HandledIn({"ToggleSelection"})
  /\ app.search_query # <<>>
  /\ app.selected_index >= 1
  /\ app.selected_index < Len(app.filtered_results.visible_items)
  /\ app.filtered_results.visible_items[app.selected_index + 1] # app.selected_index
  /\ nodes[app.filtered_results.visible_items[app.selected_index + 1] + 1].state = Included

\* C35: after every navigation or search action, for any viewport_height
\* (0 included, and a height changed by the draw step between two actions
\* included), update_scroll does not underflow and the cursor row is inside
\* the visible window: scroll_offset <= selected_index < scroll_offset +
\* viewport_height.  The code breaks it: with viewport_height = 0 the
\* subtraction viewport_height - 1 overflows, and move_up and move_down skip
\* update_scroll at either end of the list, so a window that shrank stays
\* where it was.
C35_CursorInsideTheWindow ==
  [][ HandledIn(EditOrMove \ {"Escape"})' =>
        /\ ~app'.panicked
        /\ app'.scroll_offset <= app'.selected_index
        /\ app'.selected_index < app'.scroll_offset + app'.viewport_height ]_vars

\* C36: while the app is in Help mode, any key press returns the mode to
\* Main and does nothing else: the key is not interpreted as an action, so
\* the search query, the cursor, should_quit and every node's selection
\* state are unchanged.
C36_HelpKeyOnlyLeavesHelp ==
  [][ (last'.op = "key" /\ last'.mode = "Help") =>
        /\ app.mode = "Help"
        /\ app' = [app EXCEPT !.mode = "Main"]
        /\ nodes' = nodes ]_vars

\* Enter has been pressed on the help screen, over a filtered list with the
\* cursor below its first row, and nothing is selected.
C36_Witness ==
  /\ last.op = "key" /\ last.mode = "Help"
  /\ last.key_event = Key("Enter", "", NONE)
  /\ app.mode = "Main"
  /\ app.search_query # <<>>
  /\ app.selected_index >= 1
  /\ \A i \in Indices(nodes) : nodes[i + 1].state = Excluded

\* C37: when both a global and a project configuration are loaded, every
\* setting of the project configuration overrides the global value: for each
\* field the merged setting equals the project's value, also when the
\* project's value equals the built-in default and the global value does
\* not.  The code breaks it: merge_settings takes the project's value only
\* where it differs from the default, so such a field keeps the global value.
C37_ProjectOverridesGlobal ==
  ( /\ last.op = "load_with_project_root"
    /\ IsSome(last.global_file)
    /\ IsSome(last.project_file) )
  => last.ret = Unwrap(last.project_file)
====
